---- MODULE Spec2Model ----
(***************************************************************************)
(* Rain terminal core: the TerminalState VT-callback state machine          *)
(* (terminal/state.rs, grid.rs, cursor.rs, shell/mod.rs) and the PTY        *)
(* session with its parser and render-pump threads (pty/reader.rs,          *)
(* pty/session.rs).                                                         *)
(*                                                                         *)
(* A TerminalState is a record value `ts`; every method of the Rust struct *)
(* is an operator from a TerminalState to the TerminalState it leaves.     *)
(* Cells carry the glyph and the CellFlags; colours and SGR attributes are *)
(* not represented.  A Rust panic (index out of bounds) inside a callback  *)
(* is recorded in the field `panicked`.                                    *)
(***************************************************************************)
EXTENDS Integers, Sequences, FiniteSets, TLC

(* ------------------------------ bounds --------------------------------- *)
MaxRows == 2
MaxCols == 2
MaxScrollSeq == 2
MaxFrames == 2
MaxResizes == 1
MaxQueue == 1
MaxChunks == 1
MaxIpc == 2

(* ------------------------- program constants --------------------------- *)
U16 == 65536
U16Max == 65535
RepCap == 2048

(* Scrollback limit of a grid (10_000 in Grid::new); scaled to the model.  *)
ScrollbackLimit == 1

Min(a, b) == IF a < b THEN a ELSE b
Max(a, b) == IF a > b THEN a ELSE b
SatSub(a, b) == IF a > b THEN a - b ELSE 0
WrapAdd(a, b) == (a + b) % U16

InsertAt(s, i, x) == SubSeq(s, 1, i) \o <<x>> \o SubSeq(s, i + 1, Len(s))
RemoveAt(s, i) == SubSeq(s, 1, i) \o SubSeq(s, i + 2, Len(s))

(* ------------------------------- cells --------------------------------- *)
DefaultCell == [c |-> " ", flags |-> {}]
WideSpacerCell == [c |-> " ", flags |-> {"WIDE_SPACER"}]

(* UnicodeWidthChar::width(c).unwrap_or(1): "a" is narrow, "W" is wide.    *)
CharWidth(ch) == IF ch = "W" THEN 2 ELSE 1

RowNew(cols) == [cells |-> [i \in 1..cols |-> DefaultCell], dirty |-> TRUE]

RowClear(row) == [cells |-> [i \in 1..Len(row.cells) |-> DefaultCell], dirty |-> TRUE]

RowResize(row, cols) ==
  IF Len(row.cells) # cols
  THEN [cells |-> [i \in 1..cols |-> IF i <= Len(row.cells) THEN row.cells[i] ELSE DefaultCell],
        dirty |-> TRUE]
  ELSE row

(* Row::to_styled_spans: the glyphs of the row in order, spacers skipped.  *)
ToStyledSpans(row) ==
  LET NotSpacer(cell) == "WIDE_SPACER" \notin cell.flags
      kept == SelectSeq(row.cells, NotSpacer)
  IN [i \in 1..Len(kept) |-> kept[i].c]

(* -------------------------------- grid --------------------------------- *)
GridNew(visible_rows, cols) ==
  [rows |-> [i \in 1..visible_rows |-> RowNew(cols)],
   cols |-> cols,
   visible_rows |-> visible_rows,
   scrollback_limit |-> ScrollbackLimit]

VisibleOffset(g) == SatSub(Len(g.rows), g.visible_rows)

SetDirty(g, from, to) ==
  [g EXCEPT !.rows = [i \in 1..Len(g.rows) |->
      IF i - 1 >= VisibleOffset(g) + from /\ i - 1 <= VisibleOffset(g) + to
      THEN [g.rows[i] EXCEPT !.dirty = TRUE] ELSE g.rows[i]]]

MarkAllDirty(g) ==
  IF g.visible_rows = 0 THEN g ELSE SetDirty(g, 0, g.visible_rows - 1)

SetCell(g, row, col, cell) ==
  IF col < g.cols /\ row < g.visible_rows
  THEN [g EXCEPT !.rows[VisibleOffset(g) + row + 1] =
          [cells |-> [@.cells EXCEPT ![col + 1] = cell], dirty |-> TRUE]]
  ELSE g

EraseCells(g, row, start_col, end_col) ==
  IF row >= g.visible_rows THEN g
  ELSE LET r == g.rows[VisibleOffset(g) + row + 1]
           end == Min(end_col, Len(r.cells))
       IN [g EXCEPT !.rows[VisibleOffset(g) + row + 1] =
             [cells |-> [i \in 1..Len(r.cells) |->
                            IF i - 1 >= start_col /\ i - 1 < end THEN DefaultCell ELSE r.cells[i]],
              dirty |-> TRUE]]

EraseRows(g, from, to) ==
  [g EXCEPT !.rows = [i \in 1..Len(g.rows) |->
      IF i - 1 >= VisibleOffset(g) + from /\ i - 1 < VisibleOffset(g) + to
      THEN RowClear(g.rows[i]) ELSE g.rows[i]]]

InsertCells(g, row, col, count) ==
  IF row >= g.visible_rows THEN g
  ELSE LET r == g.rows[VisibleOffset(g) + row + 1]
           len == Len(r.cells)
           n == Min(count, len - col)
       IN [g EXCEPT !.rows[VisibleOffset(g) + row + 1] =
             [cells |-> [i \in 1..len |->
                            IF i - 1 < col THEN r.cells[i]
                            ELSE IF i - 1 < col + n THEN DefaultCell
                            ELSE r.cells[i - n]],
              dirty |-> TRUE]]

DeleteCells(g, row, col, count) ==
  IF row >= g.visible_rows THEN g
  ELSE LET r == g.rows[VisibleOffset(g) + row + 1]
           len == Len(r.cells)
           n == Min(count, SatSub(len, col))
       IN [g EXCEPT !.rows[VisibleOffset(g) + row + 1] =
             [cells |-> [i \in 1..len |->
                            IF i - 1 < col THEN r.cells[i]
                            ELSE IF i + n <= len THEN r.cells[i + n]
                            ELSE DefaultCell],
              dirty |-> TRUE]]

RECURSIVE TrimFront(_, _)
TrimFront(rows, max) == IF Len(rows) > max THEN TrimFront(Tail(rows), max) ELSE rows

(* scroll_up that takes the scrollback path for every top.                 *)
ScrollUpAnyTop(g, top, bottom) ==
  LET offset == VisibleOffset(g)
      top_idx == offset + top
      bottom_idx == offset + bottom
  IN IF top_idx > bottom_idx \/ bottom_idx >= Len(g.rows)
     THEN [grid |-> g, line |-> <<>>]
     ELSE LET inserted == InsertAt(g.rows, bottom_idx + 1, RowNew(g.cols))
              trimmed == TrimFront(inserted, g.visible_rows + g.scrollback_limit)
          IN [grid |-> SetDirty([g EXCEPT !.rows = trimmed], top, bottom),
              line |-> <<[index |-> 0, spans |-> ToStyledSpans(g.rows[top_idx + 1])]>>]

(* Grid::scroll_up: the grid it leaves and the captured line (<<>> = None). *)
ScrollUp(g, top, bottom) ==
  LET offset == VisibleOffset(g)
      top_idx == offset + top
      bottom_idx == offset + bottom
  IN IF top_idx > bottom_idx \/ bottom_idx >= Len(g.rows)
     THEN [grid |-> g, line |-> <<>>]
     ELSE IF top = 0
     THEN LET inserted == InsertAt(g.rows, bottom_idx + 1, RowNew(g.cols))
              trimmed == TrimFront(inserted, g.visible_rows + g.scrollback_limit)
          IN [grid |-> SetDirty([g EXCEPT !.rows = trimmed], top, bottom),
              line |-> <<[index |-> 0, spans |-> ToStyledSpans(g.rows[top_idx + 1])]>>]
     ELSE [grid |-> SetDirty([g EXCEPT !.rows =
                       InsertAt(RemoveAt(g.rows, top_idx), bottom_idx, RowNew(g.cols))],
                     top, bottom),
           line |-> <<>>]

ScrollDown(g, top, bottom) ==
  LET offset == VisibleOffset(g)
      top_idx == offset + top
      bottom_idx == offset + bottom
  IN IF top_idx > bottom_idx \/ bottom_idx >= Len(g.rows)
     THEN g
     ELSE SetDirty([g EXCEPT !.rows =
                      InsertAt(RemoveAt(g.rows, bottom_idx), top_idx, RowNew(g.cols))],
                   top, bottom)

(* A resize that brings only the visible rows to the new width.            *)
GridResizeVisibleOnly(g, new_rows, new_cols) ==
  LET resized == [i \in 1..Len(g.rows) |->
                    IF i - 1 >= VisibleOffset(g) THEN RowResize(g.rows[i], new_cols)
                    ELSE g.rows[i]]
      needed == SatSub(new_rows, g.visible_rows)
      grown == resized \o [i \in 1..needed |-> RowNew(new_cols)]
  IN MarkAllDirty([g EXCEPT !.rows = grown, !.visible_rows = new_rows, !.cols = new_cols])

GridResize(g, new_rows, new_cols) ==
  LET resized == [i \in 1..Len(g.rows) |-> RowResize(g.rows[i], new_cols)]
      needed == SatSub(new_rows, g.visible_rows)
      grown == resized \o [i \in 1..needed |-> RowNew(new_cols)]
  IN MarkAllDirty([g EXCEPT !.rows = grown, !.visible_rows = new_rows, !.cols = new_cols])

ResizeNoScrollback(g, new_rows, new_cols) ==
  MarkAllDirty([g EXCEPT !.rows = [i \in 1..new_rows |-> RowNew(new_cols)],
                         !.visible_rows = new_rows, !.cols = new_cols])

(* A collect that returns the dirty lines and leaves their flags set.      *)
CollectDirtyLinesKeepFlags(g) ==
  LET offset == VisibleOffset(g)
      IsDirty(i) == offset + i < Len(g.rows) /\ g.rows[offset + i + 1].dirty
      RECURSIVE Collect(_)
      Collect(i) ==
        IF i >= g.visible_rows THEN <<>>
        ELSE (IF IsDirty(i)
              THEN <<[index |-> i, spans |-> ToStyledSpans(g.rows[offset + i + 1])]>>
              ELSE <<>>) \o Collect(i + 1)
  IN [lines |-> Collect(0), grid |-> g]

(* Grid::collect_dirty_lines: the lines returned and the grid it leaves.   *)
CollectDirtyLines(g) ==
  LET offset == VisibleOffset(g)
      IsDirty(i) == offset + i < Len(g.rows) /\ g.rows[offset + i + 1].dirty
      RECURSIVE Collect(_)
      Collect(i) ==
        IF i >= g.visible_rows THEN <<>>
        ELSE (IF IsDirty(i)
              THEN <<[index |-> i, spans |-> ToStyledSpans(g.rows[offset + i + 1])]>>
              ELSE <<>>) \o Collect(i + 1)
  IN [lines |-> Collect(0),
      grid |-> [g EXCEPT !.rows = [k \in 1..Len(g.rows) |->
                  IF k - 1 >= offset /\ k - 1 < offset + g.visible_rows
                  THEN [g.rows[k] EXCEPT !.dirty = FALSE] ELSE g.rows[k]]]]

(* --------------------------- TerminalState ----------------------------- *)
TabStops(cols) == [i \in 1..cols |-> (i - 1) % 8 = 0]

CursorNew == [row |-> 0, col |-> 0, saved |-> <<>>]

ModesDefault ==
  [origin |-> FALSE, autowrap |-> TRUE, insert |-> FALSE,
   linefeed_newline |-> FALSE, alt_screen |-> FALSE]

ShellNew == [current_block_id |-> <<>>, pending_events |-> <<>>, next_id |-> 1]

TerminalStateNew(rows, cols) ==
  [grid |-> GridNew(rows, cols),
   alt_grid |-> <<>>,
   using_alt |-> FALSE,
   cursor |-> CursorNew,
   modes |-> ModesDefault,
   scroll_top |-> 0,
   scroll_bottom |-> SatSub(rows, 1),
   tab_stops |-> TabStops(cols),
   title_changed |-> FALSE,
   shell |-> ShellNew,
   cols |-> cols,
   rows |-> rows,
   scrolled_off_buffer |-> <<>>,
   scrollback_seq |-> 0,
   pending_terminal_events |-> <<>>,
   pending_responses |-> <<>>,
   frame_seq |-> 0,
   resize_epoch |-> 0,
   bell_pending |-> FALSE,
   last_printed_char |-> " ",
   panicked |-> FALSE]

(* An index out of bounds (VecDeque / Vec indexing) unwinds the callback.  *)
Panic(ts) == [ts EXCEPT !.panicked = TRUE]

ActiveGrid(ts) == IF ts.using_alt THEN ts.alt_grid[1] ELSE ts.grid

WithActiveGrid(ts, g) ==
  IF ts.using_alt THEN [ts EXCEPT !.alt_grid = <<g>>] ELSE [ts EXCEPT !.grid = g]

TakePendingResponses(ts) == [ts EXCEPT !.pending_responses = <<>>]

(* A scroll_up of the active grid with the capture the callers perform.    *)
ScrollUpCapture(ts, top, bottom) ==
  LET res == ScrollUp(ActiveGrid(ts), top, bottom)
      scrolled == WithActiveGrid(ts, res.grid)
  IN IF res.line # <<>> /\ ~ts.using_alt
     THEN [scrolled EXCEPT !.scrolled_off_buffer = @ \o res.line,
                           !.scrollback_seq = @ + 1]
     ELSE scrolled

RECURSIVE CaptureLost(_, _, _)
CaptureLost(ts, i, lost_rows) ==
  IF i >= lost_rows THEN ts
  ELSE LET idx == VisibleOffset(ts.grid) + i
       IN IF idx < Len(ts.grid.rows)
          THEN CaptureLost([ts EXCEPT
                  !.scrolled_off_buffer =
                      Append(@, [index |-> 0, spans |-> ToStyledSpans(ts.grid.rows[idx + 1])]),
                  !.scrollback_seq = @ + 1], i + 1, lost_rows)
          ELSE CaptureLost(ts, i + 1, lost_rows)

BumpResizeEpoch(ts) == [ts EXCEPT !.resize_epoch = @ + 1]

Resize(ts, rows, cols) ==
  LET captured == IF ~ts.using_alt /\ rows < ts.rows
                  THEN CaptureLost(ts, 0, ts.rows - rows) ELSE ts
      resized == [captured EXCEPT
                    !.grid = GridResize(@, rows, cols),
                    !.alt_grid = IF @ = <<>> THEN <<>>
                                 ELSE <<ResizeNoScrollback(@[1], rows, cols)>>,
                    !.rows = rows,
                    !.cols = cols,
                    !.scroll_top = 0,
                    !.scroll_bottom = SatSub(rows, 1),
                    !.tab_stops = TabStops(cols),
                    !.cursor.row = Min(@, SatSub(rows, 1)),
                    !.cursor.col = Min(@, SatSub(cols, 1))]
  IN BumpResizeEpoch(resized)

SnapshotBump(ts) == [ts EXCEPT !.frame_seq = @ + 1]

(* TerminalState::take_render_snapshot: the state it leaves and the        *)
(* returned Option<RenderSnapshot> (<<>> = None).                          *)
TakeRenderSnapshot(ts) ==
  IF ts.using_alt /\ ts.alt_grid = <<>> THEN [ts |-> ts, snap |-> <<>>]
  ELSE
  LET grid == ActiveGrid(ts)
      collected == CollectDirtyLines(grid)
      all_events == ts.shell.pending_events \o ts.pending_terminal_events
                      \o (IF ts.title_changed THEN <<[type |-> "TitleChanged"]>> ELSE <<>>)
                      \o (IF ts.bell_pending THEN <<[type |-> "Bell"]>> ELSE <<>>)
      drained == [WithActiveGrid(ts, collected.grid) EXCEPT
                    !.scrolled_off_buffer = <<>>,
                    !.shell.pending_events = <<>>,
                    !.pending_terminal_events = <<>>,
                    !.title_changed = FALSE,
                    !.bell_pending = FALSE]
  IN IF collected.lines = <<>> /\ all_events = <<>> /\ ts.scrolled_off_buffer = <<>>
     THEN [ts |-> drained, snap |-> <<>>]
     ELSE LET bumped == SnapshotBump(drained)
          IN [ts |-> bumped,
              snap |-> <<[frame_seq |-> bumped.frame_seq,
                          resize_epoch |-> ts.resize_epoch,
                          lines |-> collected.lines,
                          scrolled_lines |-> ts.scrolled_off_buffer,
                          visible_base_global |-> IF ts.using_alt THEN 0 ELSE ts.scrollback_seq,
                          visible_rows |-> grid.visible_rows,
                          visible_cols |-> grid.cols,
                          cursor |-> [row |-> ts.cursor.row, col |-> ts.cursor.col],
                          events |-> all_events]>>]

Linefeed(ts) ==
  IF ts.cursor.row = ts.scroll_bottom
  THEN ScrollUpCapture(ts, ts.scroll_top, ts.scroll_bottom)
  ELSE IF ts.cursor.row < SatSub(ts.rows, 1)
  THEN [ts EXCEPT !.cursor.row = @ + 1]
  ELSE ts

GlobalRow(ts) == ts.scrollback_seq + ts.cursor.row

ReverseIndex(ts) ==
  IF ts.cursor.row = ts.scroll_top
  THEN WithActiveGrid(ts, ScrollDown(ActiveGrid(ts), ts.scroll_top, ts.scroll_bottom))
  ELSE IF ts.cursor.row > 0
  THEN [ts EXCEPT !.cursor.row = @ - 1]
  ELSE ts

CarriageReturn(ts) == [ts EXCEPT !.cursor.col = 0]

Backspace(ts) == IF ts.cursor.col > 0 THEN [ts EXCEPT !.cursor.col = @ - 1] ELSE ts

Tab(ts) ==
  LET stops == {i \in (ts.cursor.col + 1)..(ts.cols - 1) :
                   i < Len(ts.tab_stops) /\ ts.tab_stops[i + 1]}
  IN IF stops # {}
     THEN [ts EXCEPT !.cursor.col = CHOOSE i \in stops : \A j \in stops : i <= j]
     ELSE [ts EXCEPT !.cursor.col = SatSub(ts.cols, 1)]

InRegion(ts) == ts.cursor.row >= ts.scroll_top /\ ts.cursor.row <= ts.scroll_bottom

CursorUp(ts, n) ==
  LET min_row == IF InRegion(ts) THEN ts.scroll_top ELSE 0
  IN [ts EXCEPT !.cursor.row = Max(SatSub(@, n), min_row)]

CursorDown(ts, n) ==
  LET max_row == IF InRegion(ts) THEN ts.scroll_bottom ELSE SatSub(ts.rows, 1)
  IN [ts EXCEPT !.cursor.row = Min(WrapAdd(@, n), max_row)]

CursorForward(ts, n) == [ts EXCEPT !.cursor.col = Min(WrapAdd(@, n), SatSub(ts.cols, 1))]

CursorBackward(ts, n) == [ts EXCEPT !.cursor.col = SatSub(@, n)]

EraseDisplay(ts, mode) ==
  LET grid == ActiveGrid(ts)
      crow == ts.cursor.row
      ccol == ts.cursor.col
  IN CASE mode = 0 ->
            WithActiveGrid(ts, EraseRows(EraseCells(grid, crow, ccol, ts.cols), crow + 1, ts.rows))
       [] mode = 1 ->
            IF crow > grid.visible_rows
            THEN Panic(WithActiveGrid(ts, EraseRows(grid, 0, grid.visible_rows)))
            ELSE WithActiveGrid(ts, EraseCells(EraseRows(grid, 0, crow), crow, 0, ccol + 1))
       [] mode = 2 -> WithActiveGrid(ts, EraseRows(grid, 0, ts.rows))
       [] mode = 3 ->
            [ts EXCEPT !.scrolled_off_buffer = <<>>,
                       !.pending_terminal_events = Append(@, [type |-> "ScrollbackCleared"])]
       [] OTHER -> ts

EraseLine(ts, mode) ==
  LET grid == ActiveGrid(ts)
      crow == ts.cursor.row
      ccol == ts.cursor.col
  IN CASE mode = 0 -> WithActiveGrid(ts, EraseCells(grid, crow, ccol, ts.cols))
       [] mode = 1 -> WithActiveGrid(ts, EraseCells(grid, crow, 0, ccol + 1))
       [] mode = 2 ->
            IF VisibleOffset(grid) + crow >= Len(grid.rows)
            THEN Panic(ts)
            ELSE WithActiveGrid(ts, EraseRows(grid, crow, crow + 1))
       [] OTHER -> ts

RECURSIVE ScrollDownTimes(_, _, _, _)
ScrollDownTimes(ts, top, bottom, n) ==
  IF n = 0 THEN ts
  ELSE ScrollDownTimes(WithActiveGrid(ts, ScrollDown(ActiveGrid(ts), top, bottom)),
                       top, bottom, n - 1)

RECURSIVE ScrollUpTimes(_, _, _, _)
ScrollUpTimes(ts, top, bottom, n) ==
  IF n = 0 THEN ts
  ELSE ScrollUpTimes(ScrollUpCapture(ts, top, bottom), top, bottom, n - 1)

InsertLines(ts, n) ==
  IF InRegion(ts)
  THEN [ScrollDownTimes(ts, ts.cursor.row, ts.scroll_bottom, n) EXCEPT !.cursor.col = 0]
  ELSE ts

DeleteLines(ts, n) ==
  IF InRegion(ts)
  THEN [ScrollUpTimes(ts, ts.cursor.row, ts.scroll_bottom, n) EXCEPT !.cursor.col = 0]
  ELSE ts

EraseChars(ts, n) ==
  WithActiveGrid(ts, EraseCells(ActiveGrid(ts), ts.cursor.row, ts.cursor.col,
                                Min(WrapAdd(ts.cursor.col, n), ts.cols)))

InsertChars(ts, n) ==
  LET grid == ActiveGrid(ts)
  IN IF ts.cursor.row < grid.visible_rows /\ ts.cursor.col > grid.cols
     THEN Panic(ts)
     ELSE WithActiveGrid(ts, InsertCells(grid, ts.cursor.row, ts.cursor.col, n))

DeleteChars(ts, n) ==
  WithActiveGrid(ts, DeleteCells(ActiveGrid(ts), ts.cursor.row, ts.cursor.col, n))

ScrollUpN(ts, n) == ScrollUpTimes(ts, ts.scroll_top, ts.scroll_bottom, n)

ScrollDownN(ts, n) == ScrollDownTimes(ts, ts.scroll_top, ts.scroll_bottom, n)

(* CursorState::save / CursorState::restore *)
SaveCursor(ts) ==
  [ts EXCEPT !.cursor.saved = <<[row |-> ts.cursor.row, col |-> ts.cursor.col]>>]

RestoreCursor(ts) ==
  IF ts.cursor.saved # <<>>
  THEN [ts EXCEPT !.cursor = [row |-> ts.cursor.saved[1].row,
                              col |-> ts.cursor.saved[1].col,
                              saved |-> <<>>]]
  ELSE ts

EnterAltScreen(ts) ==
  IF ~ts.using_alt
  THEN [ts EXCEPT !.alt_grid = <<GridNew(ts.rows, ts.cols)>>,
                  !.using_alt = TRUE,
                  !.modes.alt_screen = TRUE,
                  !.pending_terminal_events = Append(@, [type |-> "AltScreenEntered"])]
  ELSE ts

(* exit_alt_screen without the mark_all_dirty of the main grid.            *)
ExitAltScreenKeepDirty(ts) ==
  IF ts.using_alt
  THEN [ts EXCEPT !.using_alt = FALSE,
                  !.modes.alt_screen = FALSE,
                  !.alt_grid = <<>>,
                  !.pending_terminal_events = Append(@, [type |-> "AltScreenExited"])]
  ELSE ts

ExitAltScreen(ts) ==
  IF ts.using_alt
  THEN [ts EXCEPT !.using_alt = FALSE,
                  !.modes.alt_screen = FALSE,
                  !.alt_grid = <<>>,
                  !.grid = MarkAllDirty(@),
                  !.pending_terminal_events = Append(@, [type |-> "AltScreenExited"])]
  ELSE ts

ClearScreen(ts) ==
  [WithActiveGrid(ts, EraseRows(ActiveGrid(ts), 0, ts.rows)) EXCEPT
     !.cursor.row = 0, !.cursor.col = 0]

EmitModeChanged(ts) ==
  [ts EXCEPT !.pending_terminal_events = Append(@, [type |-> "MouseModeChanged"])]

SetDecModeOne(ts, p, enable) ==
  CASE p = 6 ->
         [ts EXCEPT !.modes.origin = enable,
                    !.cursor.row = IF enable THEN ts.scroll_top ELSE 0,
                    !.cursor.col = 0]
    [] p = 7 -> [ts EXCEPT !.modes.autowrap = enable]
    [] p = 47 -> IF enable THEN EnterAltScreen(ts) ELSE ExitAltScreen(ts)
    [] p = 1047 -> IF enable THEN ClearScreen(EnterAltScreen(ts)) ELSE ExitAltScreen(ts)
    [] p = 1048 -> IF enable THEN SaveCursor(ts) ELSE RestoreCursor(ts)
    [] p = 1049 ->
         IF enable THEN ClearScreen(EnterAltScreen(SaveCursor(ts)))
         ELSE RestoreCursor(ExitAltScreen(ts))
    [] p \in {1, 1000, 1002, 1003, 1004, 1005, 1006, 1007, 2004, 2026} -> EmitModeChanged(ts)
    [] OTHER -> ts

RECURSIVE SetDecMode(_, _, _)
SetDecMode(ts, params, enable) ==
  IF params = <<>> THEN ts
  ELSE SetDecMode(SetDecModeOne(ts, Head(params), enable), Tail(params), enable)

SetModeOne(ts, p, enable) ==
  CASE p = 4 -> [ts EXCEPT !.modes.insert = enable]
    [] p = 20 -> [ts EXCEPT !.modes.linefeed_newline = enable]
    [] OTHER -> ts

RECURSIVE SetMode(_, _, _)
SetMode(ts, params, enable) ==
  IF params = <<>> THEN ts
  ELSE SetMode(SetModeOne(ts, Head(params), enable), Tail(params), enable)

(* ShellIntegration: Uuid::new_v4 is a fresh identifier, here a counter.   *)
PromptStart(ts) ==
  [ts EXCEPT !.shell.current_block_id = <<ts.shell.next_id>>,
             !.shell.next_id = @ + 1,
             !.shell.pending_events =
                Append(@, [type |-> "BlockStarted", id |-> ts.shell.next_id,
                           global_row |-> GlobalRow(ts)])]

CommandStart(ts) ==
  IF ts.shell.current_block_id # <<>>
  THEN [ts EXCEPT !.shell.pending_events =
                Append(@, [type |-> "BlockCommand", id |-> ts.shell.current_block_id[1],
                           global_row |-> GlobalRow(ts)])]
  ELSE ts

(* A command_end that leaves the block current.                             *)
CommandEndKeepCurrent(ts) ==
  IF ts.shell.current_block_id # <<>>
  THEN [ts EXCEPT !.shell.pending_events =
                Append(@, [type |-> "BlockCompleted", id |-> ts.shell.current_block_id[1],
                           global_row |-> GlobalRow(ts)])]
  ELSE ts

CommandEnd(ts) ==
  IF ts.shell.current_block_id # <<>>
  THEN [ts EXCEPT !.shell.current_block_id = <<>>,
                  !.shell.pending_events =
                Append(@, [type |-> "BlockCompleted", id |-> ts.shell.current_block_id[1],
                           global_row |-> GlobalRow(ts)])]
  ELSE ts

(* handle_osc on the first parameter (and the 133 marker); "133B_empty" is  *)
(* a B marker whose command text is empty.                                  *)
HandleOsc(ts, osc) ==
  CASE osc = "title" -> [ts EXCEPT !.title_changed = TRUE]
    [] osc = "133A" -> PromptStart(ts)
    [] osc = "133B" -> CommandStart(ts)
    [] osc = "133B_empty" -> ts
    [] osc = "133D" -> CommandEnd(ts)
    [] OTHER -> ts

(* fn param(params, idx, default): a missing or zero parameter is default. *)
Param(params, idx, default) ==
  IF idx < Len(params) /\ params[idx + 1] # 0 THEN params[idx + 1] ELSE default

(* The body shared by print() and each iteration of CSI b (REP).            *)
PrintCell(ts, c) ==
  LET width == CharWidth(c)
      wrapped == IF ts.cursor.col >= ts.cols
                 THEN IF ts.modes.autowrap
                      THEN Linefeed(CarriageReturn(ts))
                      ELSE [ts EXCEPT !.cursor.col = SatSub(ts.cols, 1)]
                 ELSE ts
      row == wrapped.cursor.row
      col == wrapped.cursor.col
      shifted == IF wrapped.modes.insert
                 THEN InsertCells(ActiveGrid(wrapped), row, col, width)
                 ELSE ActiveGrid(wrapped)
      cell == [c |-> c, flags |-> IF width = 2 THEN {"WIDE_CHAR"} ELSE {}]
      written == SetCell(shifted, row, col, cell)
      spaced == IF width = 2 /\ col + 1 < wrapped.cols
                THEN SetCell(written, row, col + 1, WideSpacerCell)
                ELSE written
  IN [WithActiveGrid(wrapped, spaced) EXCEPT !.cursor.col = col + width]

PrintChar(ts, c) == PrintCell([ts EXCEPT !.last_printed_char = c], c)

RECURSIVE RepeatPrint(_, _, _)
RepeatPrint(ts, c, n) == IF n = 0 THEN ts ELSE RepeatPrint(PrintCell(ts, c), c, n - 1)

ExecuteByte(ts, byte) ==
  CASE byte = "BEL" -> [ts EXCEPT !.bell_pending = TRUE]
    [] byte = "BS" -> Backspace(ts)
    [] byte = "HT" -> Tab(ts)
    [] byte = "LF" ->
         IF ts.modes.linefeed_newline THEN CarriageReturn(Linefeed(ts)) ELSE Linefeed(ts)
    [] byte = "CR" -> CarriageReturn(ts)
    [] OTHER -> ts

PushResponse(ts, resp) == [ts EXCEPT !.pending_responses = Append(@, resp)]

SetScrollRegion(ts, params) ==
  LET top == SatSub(Param(params, 0, 1), 1)
      bottom == SatSub(Param(params, 1, ts.rows), 1)
  IN [ts EXCEPT !.scroll_top = top,
                !.scroll_bottom = Min(bottom, SatSub(ts.rows, 1)),
                !.cursor.row = IF ts.modes.origin THEN top ELSE 0,
                !.cursor.col = 0]

RowTarget(ts, params) ==
  LET row == Param(params, 0, 1) - 1
  IN IF ts.modes.origin
     THEN Min(WrapAdd(ts.scroll_top, row), ts.scroll_bottom)
     ELSE Min(row, SatSub(ts.rows, 1))

(* report_dec_modes / report_ansi_modes: one DECRPM report per parameter.  *)
RECURSIVE ReportModes(_, _)
ReportModes(ts, n) ==
  IF n = 0 THEN ts ELSE ReportModes(PushResponse(ts, [t |-> "DECRPM"]), n - 1)

(* csi_dispatch: csi = [action, im, params]; im is the intermediate / the   *)
(* private marker ("" when none).                                           *)
CsiDispatchOp(ts, csi) ==
  LET a == csi.action
      ps == csi.params
      n1 == Param(ps, 0, 1)
  IN CASE a = "c" /\ csi.im = ">" ->
            IF Param(ps, 0, 0) = 0 THEN PushResponse(ts, [t |-> "DA2"]) ELSE ts
       [] a = "h" /\ csi.im = "?" -> SetDecMode(ts, ps, TRUE)
       [] a = "l" /\ csi.im = "?" -> SetDecMode(ts, ps, FALSE)
       [] a = "p" /\ csi.im \in {"$", "?$"} -> ReportModes(ts, Max(Len(ps), 1))
       [] csi.im \in {"?", "?$"} -> ts
       [] a = "A" -> CursorUp(ts, n1)
       [] a = "B" -> CursorDown(ts, n1)
       [] a = "C" -> CursorForward(ts, n1)
       [] a = "D" -> CursorBackward(ts, n1)
       [] a = "E" -> CursorDown([ts EXCEPT !.cursor.col = 0], n1)
       [] a = "F" -> CursorUp([ts EXCEPT !.cursor.col = 0], n1)
       [] a = "G" -> [ts EXCEPT !.cursor.col = Min(n1 - 1, SatSub(ts.cols, 1))]
       [] a \in {"H", "f"} ->
            [ts EXCEPT !.cursor.row = RowTarget(ts, ps),
                       !.cursor.col = Min(Param(ps, 1, 1) - 1, SatSub(ts.cols, 1))]
       [] a = "J" -> EraseDisplay(ts, Param(ps, 0, 0))
       [] a = "K" -> EraseLine(ts, Param(ps, 0, 0))
       [] a = "L" -> InsertLines(ts, n1)
       [] a = "M" -> DeleteLines(ts, n1)
       [] a = "P" -> DeleteChars(ts, n1)
       [] a = "S" -> ScrollUpN(ts, n1)
       [] a = "T" -> ScrollDownN(ts, n1)
       [] a = "X" -> EraseChars(ts, n1)
       [] a = "@" -> InsertChars(ts, n1)
       [] a = "d" -> [ts EXCEPT !.cursor.row = RowTarget(ts, ps)]
       [] a = "r" -> SetScrollRegion(ts, ps)
       [] a = "h" -> SetMode(ts, ps, TRUE)
       [] a = "l" -> SetMode(ts, ps, FALSE)
       [] a = "n" ->
            CASE Param(ps, 0, 0) = 5 -> PushResponse(ts, [t |-> "DSR"])
              [] Param(ps, 0, 0) = 6 ->
                   PushResponse(ts, [t |-> "CPR", row |-> ts.cursor.row + 1,
                                     col |-> ts.cursor.col + 1])
              [] OTHER -> ts
       [] a = "c" -> IF Param(ps, 0, 0) = 0 THEN PushResponse(ts, [t |-> "DA1"]) ELSE ts
       [] a = "s" -> SaveCursor(ts)
       [] a = "u" -> RestoreCursor(ts)
       [] a = "b" -> RepeatPrint(ts, ts.last_printed_char, Min(n1, RepCap))
       [] OTHER -> ts

RisKeepNothing(ts) == TerminalStateNew(ts.rows, ts.cols)

(* A reset that rebuilds everything but the main grid.                     *)
RisSameGrid(ts) ==
  LET fresh == [TerminalStateNew(ts.rows, ts.cols) EXCEPT
                  !.frame_seq = ts.frame_seq, !.grid = ts.grid]
  IN IF ts.using_alt
     THEN [fresh EXCEPT !.pending_terminal_events = Append(@, [type |-> "AltScreenExited"])]
     ELSE fresh

(* ESC c: *self = TerminalState::new(rows, cols) with frame_seq kept.       *)
FullReset(ts) ==
  LET fresh == [TerminalStateNew(ts.rows, ts.cols) EXCEPT
                  !.frame_seq = ts.frame_seq, !.grid = MarkAllDirty(@)]
  IN IF ts.using_alt
     THEN [fresh EXCEPT !.pending_terminal_events = Append(@, [type |-> "AltScreenExited"])]
     ELSE fresh

EscDispatchOp(ts, byte) ==
  CASE byte = "c" -> FullReset(ts)
    [] byte = "D" -> Linefeed(ts)
    [] byte = "E" -> Linefeed(CarriageReturn(ts))
    [] byte = "H" ->
         IF ts.cursor.col < Len(ts.tab_stops)
         THEN [ts EXCEPT !.tab_stops[ts.cursor.col + 1] = TRUE] ELSE ts
    [] byte = "M" -> ReverseIndex(ts)
    [] byte = "7" -> SaveCursor(ts)
    [] byte = "8" -> RestoreCursor(ts)
    [] OTHER -> ts

(* One VT parser callback: cb = [kind, arg].                                *)
Perform(ts, cb) ==
  CASE cb.kind = "print" -> PrintChar(ts, cb.arg)
    [] cb.kind = "execute" -> ExecuteByte(ts, cb.arg)
    [] cb.kind = "csi" -> CsiDispatchOp(ts, cb.arg)
    [] cb.kind = "esc" -> EscDispatchOp(ts, cb.arg)
    [] cb.kind = "osc" -> HandleOsc(ts, cb.arg)

(* ------------------------------ state --------------------------------- *)
VARIABLES
  ts,        \* the TerminalState (behind the session's state mutex)
  frames,    \* the last two snapshots returned by take_render_snapshot
  nsnap,     \* how many snapshots take_render_snapshot has returned
  sn,        \* the Session struct and the objects its threads share
             \*   (tmux: the controller's running flag, notify channel, TmuxState)
  pc,        \* where the parser, render-pump and IPC threads stand, with their locals
             \*   (tmux: the reader's and the processor's locals and the pane pumps;
             \*    octal decoding: whether decode_octal_escapes has returned)
  os,        \* the PTY and the child process behind it
             \*   (tmux: the lines tmux has written; octal decoding: the input bytes)
  gh         \* what an observer of the session has recorded (history only)
             \*   (tmux: the events emitted; octal decoding: the decoded bytes)

vars == <<ts, frames, nsnap, sn, pc, os, gh>>

(* Session::new followed by set_thread_handles and set_temp_dir.           *)
SessionNew ==
  [running |-> TRUE, render_waker |-> TRUE, waker |-> <<>>,
   state_lock |-> "free", writer_lock |-> "free", child_lock |-> "free", exit_code |-> "none",
   master |-> TRUE, parser_handle |-> TRUE, render_handle |-> TRUE, temp_dir |-> TRUE]

ThreadsNew ==
  [parser |-> "loop", chunk |-> <<>>, pump |-> "loop", seen |-> 0,
   ipc |-> "idle", req |-> <<>>, resizes |-> 0]

PtyNew(rows, cols) ==
  [out |-> <<>>, child |-> "alive", size |-> <<rows, cols>>, gen |-> 0, sent |-> 0]

ObserverNew ==
  [parsed |-> 0, st_gen |-> 0, early_parse |-> FALSE, resized |-> {},
   ended |-> 0, ended_code |-> "none", late_frame |-> FALSE,
   unpublished |-> FALSE, snap_seen |-> 0, snap_parsed |-> 0, held_ops |-> {}]

SessionIdle ==
  /\ sn = SessionNew
  /\ pc = ThreadsNew
  /\ os = PtyNew(MaxRows, 1)
  /\ gh = ObserverNew

(* What the display layer reads of a snapshot's header.                    *)
FrameOf(snap) ==
  [frame_seq |-> snap.frame_seq,
   resize_epoch |-> snap.resize_epoch,
   visible_base_global |-> snap.visible_base_global,
   visible_rows |-> snap.visible_rows,
   visible_cols |-> snap.visible_cols,
   scrolled |-> Len(snap.scrolled_lines)]

LastTwo(s) == IF Len(s) > 2 THEN SubSeq(s, Len(s) - 1, Len(s)) ELSE s

(* The counters and queues of a TerminalState are unbounded in the code;   *)
(* the model explores the states within these caps.                        *)
WithinBounds(t) ==
  /\ t.scrollback_seq <= MaxScrollSeq
  /\ t.frame_seq <= MaxFrames
  /\ t.resize_epoch <= MaxResizes
  /\ Len(t.scrolled_off_buffer) <= MaxQueue
  /\ Len(t.pending_terminal_events) <= MaxQueue
  /\ Len(t.pending_responses) <= MaxQueue
  /\ Len(t.shell.pending_events) <= MaxQueue

PrintChars == {"a", "W"}

ExecBytes == {"BS", "HT", "LF", "CR"}

Csi(action, im, params) == [action |-> action, im |-> im, params |-> params]

(* Cursor motion with a missing, a small and the largest parameter.        *)
CsiCursorInputs ==
  {Csi(a, "", <<n>>) : a \in {"A", "B", "C", "D", "E", "F", "G", "d"}, n \in {0, 2, U16Max}}
    \cup {Csi("H", "", <<r, c>>) : r \in {0, 2, U16Max}, c \in {0, 3}}
    \cup {Csi("r", "", <<t, b>>) : t \in {0, 2, 3}, b \in {0, 1}}
    \cup {Csi(a, "?", <<m>>) : a \in {"h", "l"}, m \in {6, 7}}

(* A one-column and a one-row terminal: the narrowest grids on which the   *)
(* last column and the last row are reached by every motion.               *)
InitDims == {<<MaxRows, 1>>, <<1, MaxCols>>}

TermInit ==
  /\ \E d \in InitDims : ts = TerminalStateNew(d[1], d[2])
  /\ frames = <<>>
  /\ nsnap = 0
  /\ SessionIdle

Feed(cb) ==
  /\ ~ts.panicked
  /\ WithinBounds(Perform(ts, cb))
  /\ ts' = Perform(ts, cb)
  /\ UNCHANGED <<frames, nsnap, sn, pc, os, gh>>

PrintCb == \E c \in PrintChars : Feed([kind |-> "print", arg |-> c])

ExecuteCb == \E b \in ExecBytes : Feed([kind |-> "execute", arg |-> b])

CsiCursor == \E csi \in CsiCursorInputs : Feed([kind |-> "csi", arg |-> csi])

EscCursor == \E b \in {"c", "D", "E", "M"} : Feed([kind |-> "esc", arg |-> b])

OscCursor == Feed([kind |-> "osc", arg |-> "title"])

CursorNext == PrintCb \/ ExecuteCb \/ CsiCursor \/ EscCursor \/ OscCursor

SpecCursor == TermInit /\ [][CursorNext]_vars

(* C1: after every parser callback on a terminal of r rows and c columns   *)
(* the cursor satisfies 0 <= cursor.row < r and 0 <= cursor.col <= c.      *)
C1_CursorInBounds ==
  /\ ts.cursor.row >= 0 /\ ts.cursor.row < ts.rows
  /\ ts.cursor.col >= 0 /\ ts.cursor.col <= ts.cols

(* ------------- parser input, resizes and snapshots of one state -------- *)
(* Text, a line feed, the full reset and erase-scrollback: the callbacks   *)
(* that touch the counters a frame carries.                                *)
FrameInputs ==
  {[kind |-> "print", arg |-> "a"],
   [kind |-> "execute", arg |-> "LF"],
   [kind |-> "esc", arg |-> "c"],
   [kind |-> "csi", arg |-> Csi("J", "", <<3>>)]}

FeedFrames == \E cb \in FrameInputs : Feed(cb)

(* A one-column terminal of every height.                                  *)
FrameDims == (1..MaxRows) \X {1}

FramesInit ==
  /\ ts = TerminalStateNew(MaxRows, 1)
  /\ frames = <<>>
  /\ nsnap = 0
  /\ SessionIdle

(* TerminalState::resize called with any of the heights.                   *)
ResizeAct ==
  \E d \in FrameDims :
    /\ ~ts.panicked
    /\ WithinBounds(Resize(ts, d[1], d[2]))
    /\ ts' = Resize(ts, d[1], d[2])
    /\ UNCHANGED <<frames, nsnap, sn, pc, os, gh>>

(* TerminalState::take_render_snapshot; a returned snapshot is recorded.   *)
SnapshotAct ==
  LET r == TakeRenderSnapshot(ts)
  IN /\ ~ts.panicked
     /\ WithinBounds(r.ts)
     /\ ts' = r.ts
     /\ IF r.snap = <<>>
        THEN UNCHANGED <<frames, nsnap>>
        ELSE /\ nsnap < MaxFrames
             /\ frames' = LastTwo(Append(frames, FrameOf(r.snap[1])))
             /\ nsnap' = nsnap + 1
     /\ UNCHANGED <<sn, pc, os, gh>>

FramesNext == FeedFrames \/ ResizeAct \/ SnapshotAct

SpecFrames == FramesInit /\ [][FramesNext]_vars

(* C2: frame_seq grows by exactly 1 with each snapshot returned by         *)
(* take_render_snapshot and is unchanged by a call that returns none and   *)
(* by parser input, resizes and full resets; consecutive snapshots carry   *)
(* consecutive frame_seq values.                                           *)
C2_FrameSeqPerSnapshot ==
  /\ [](ts.frame_seq = nsnap)
  /\ [](Len(frames) = 2 => frames[2].frame_seq = frames[1].frame_seq + 1)
  /\ [][/\ ts'.frame_seq = ts.frame_seq + (nsnap' - nsnap)
        /\ nsnap' # nsnap => frames'[Len(frames')].frame_seq = ts.frame_seq + 1]_vars

(* Two snapshots were returned with a full reset of a resized, scrolled    *)
(* terminal behind them.                                                   *)
C2_Witness ==
  /\ Len(frames) = 2
  /\ frames[2].frame_seq = 2
  /\ frames[1].resize_epoch = 1
  /\ frames[2].resize_epoch = 0

(* C3: no step lowers resize_epoch.                                        *)
C3_ResizeEpochMonotonic == [][ts'.resize_epoch >= ts.resize_epoch]_vars

(* C4: of two consecutive snapshots the later visible_base_global is not   *)
(* lower, and exceeds the earlier by the number of its scrolled lines.     *)
C4_BaseDelta ==
  Len(frames) = 2 =>
    /\ frames[2].visible_base_global >= frames[1].visible_base_global
    /\ frames[2].visible_base_global - frames[1].visible_base_global = frames[2].scrolled

(* ------------------- the session and its two threads ------------------- *)
(* sync_channel(1).try_send: a signal is dropped when one is pending.  The *)
(* signal carries, for the observer, how many chunks were parsed when it   *)
(* was sent by the parser thread (0 from any other sender).                *)
WakerCapacity == 1

TrySend(waker, tag) == IF Len(waker) < WakerCapacity THEN Append(waker, tag) ELSE waker

(* Session::notify_render.                                                 *)
NotifyRender(s) == IF s.render_waker THEN [s EXCEPT !.waker = TrySend(@, 0)] ELSE s

(* The observer notes an operation that can suspend its thread when the    *)
(* thread performs it holding the TerminalState lock.                      *)
Held(g, thread, op) ==
  IF sn.state_lock = thread THEN [g EXCEPT !.held_ops = @ \cup {op}] ELSE g

(* What the child writes: text, a cursor-position request, a full reset.   *)
SessionInputs ==
  {[kind |-> "print", arg |-> "a"],
   [kind |-> "csi", arg |-> Csi("n", "", <<6>>)],
   [kind |-> "esc", arg |-> "c"]}

SessionInit ==
  /\ ts = TerminalStateNew(MaxRows, 1)
  /\ frames = <<>>
  /\ nsnap = 0
  /\ SessionIdle

(* The child writes a chunk to the PTY, formatted for the PTY's size.      *)
ChildWrite ==
  \E cb \in SessionInputs :
    /\ os.child = "alive"
    /\ os.sent < MaxChunks
    /\ Len(os.out) < MaxQueue
    /\ os' = [os EXCEPT !.out = Append(@, [cb |-> cb, gen |-> os.gen]), !.sent = @ + 1]
    /\ UNCHANGED <<ts, frames, nsnap, sn, pc, gh>>

ChildExit ==
  /\ os.child = "alive"
  /\ os' = [os EXCEPT !.child = "dead"]
  /\ UNCHANGED <<ts, frames, nsnap, sn, pc, gh>>

(* Parser thread: while parser_running.load(Acquire).                      *)
ParserLoop ==
  /\ pc.parser = "loop"
  /\ pc' = [pc EXCEPT !.parser = IF sn.running THEN "read" ELSE "done"]
  /\ UNCHANGED <<ts, frames, nsnap, sn, os, gh>>

(* A parser that signals the pump as soon as it has read a chunk, before   *)
(* it locks the state and parses.                                          *)
ParserReadOkSignalFirst ==
  /\ pc.parser = "read"
  /\ os.out # <<>>
  /\ os' = [os EXCEPT !.out = Tail(@)]
  /\ pc' = [pc EXCEPT !.parser = "lock", !.chunk = <<Head(os.out)>>]
  /\ sn' = [sn EXCEPT !.waker = TrySend(@, gh.parsed + 1)]
  /\ gh' = Held(gh, "parser", "pty_read")
  /\ UNCHANGED <<ts, frames, nsnap>>

(* reader.read returns Ok(n), n > 0.                                       *)
ParserReadOk ==
  /\ pc.parser = "read"
  /\ os.out # <<>>
  /\ os' = [os EXCEPT !.out = Tail(@)]
  /\ pc' = [pc EXCEPT !.parser = "lock", !.chunk = <<Head(os.out)>>]
  /\ gh' = Held(gh, "parser", "pty_read")
  /\ UNCHANGED <<ts, frames, nsnap, sn>>

(* Ok(n) arm: parser_state.lock(), parser.advance over the chunk,          *)
(* state.take_pending_responses().                                         *)
ParserAdvance ==
  /\ pc.parser = "lock"
  /\ sn.state_lock = "free"
  /\ LET advanced == Perform(ts, pc.chunk[1].cb)
     IN /\ ts' = TakePendingResponses(advanced)
        /\ pc' = [pc EXCEPT !.parser = IF advanced.pending_responses # <<>>
                                       THEN "respond" ELSE "notify",
                            !.chunk = <<>>]
  /\ sn' = [sn EXCEPT !.state_lock = "parser"]
  /\ gh' = [gh EXCEPT !.parsed = @ + 1,
                      !.unpublished = TRUE,
                      !.early_parse = @ \/ pc.chunk[1].gen > gh.st_gen]
  /\ UNCHANGED <<frames, nsnap, os>>

(* Ok(n) arm: parser_writer.lock(), write_all of each response, flush.     *)
ParserRespond ==
  /\ pc.parser = "respond"
  /\ sn.writer_lock = "free"
  /\ pc' = [pc EXCEPT !.parser = "notify"]
  /\ gh' = Held(gh, "parser", "pty_write")
  /\ UNCHANGED <<ts, frames, nsnap, sn, os>>

(* Ok(n) arm: notify_render(&parser_waker), the state guard still held.    *)
ParserNotify ==
  /\ pc.parser = "notify"
  /\ sn' = [sn EXCEPT !.waker = TrySend(@, gh.parsed)]
  /\ pc' = [pc EXCEPT !.parser = "unlock"]
  /\ UNCHANGED <<ts, frames, nsnap, os, gh>>

(* End of the Ok(n) arm: the state guard goes out of scope.                *)
ParserUnlock ==
  /\ pc.parser = "unlock"
  /\ sn' = [sn EXCEPT !.state_lock = "free"]
  /\ pc' = [pc EXCEPT !.parser = "loop"]
  /\ UNCHANGED <<ts, frames, nsnap, os, gh>>

(* Ok(0) and Err arms: the child's side of the PTY is closed and nothing   *)
(* is buffered; try_wait under the child lock, store the exit code, clear  *)
(* running, notify, break.                                                 *)
ParserEof ==
  /\ pc.parser = "read"
  /\ os.out = <<>>
  /\ os.child = "dead"
  /\ sn.child_lock = "free"
  /\ sn' = [sn EXCEPT !.exit_code = "some", !.running = FALSE,
                      !.waker = TrySend(@, gh.parsed)]
  /\ pc' = [pc EXCEPT !.parser = "done"]
  /\ gh' = Held(gh, "parser", "pty_read")
  /\ UNCHANGED <<ts, frames, nsnap, os>>

ParserNext ==
  \/ ParserLoop \/ ParserReadOk \/ ParserAdvance \/ ParserRespond
  \/ ParserNotify \/ ParserUnlock \/ ParserEof

(* Render pump: take_render_snapshot under the lock, drop it, emit the     *)
(* frame if one was returned; `frames` holds the last frame emitted.       *)
Publish ==
  LET r == TakeRenderSnapshot(ts)
  IN /\ ts' = r.ts
     /\ IF r.snap = <<>>
        THEN UNCHANGED <<frames, nsnap>>
        ELSE /\ frames' = <<FrameOf(r.snap[1])>>
             /\ nsnap' = nsnap + 1
     /\ gh' = [gh EXCEPT !.unpublished = FALSE,
                         !.late_frame = @ \/ (r.snap # <<>> /\ gh.ended > 0),
                         !.snap_seen = pc.seen,
                         !.snap_parsed = gh.parsed]

(* while render_running.load(Acquire).                                     *)
PumpLoop ==
  /\ pc.pump = "loop"
  /\ pc' = [pc EXCEPT !.pump = IF sn.running THEN "recv" ELSE "final"]
  /\ UNCHANGED <<ts, frames, nsnap, sn, os, gh>>

(* render_rx.recv() returns a signal (the pump owns a sender itself, so    *)
(* recv never fails).                                                      *)
PumpRecv ==
  /\ pc.pump = "recv"
  /\ sn.waker # <<>>
  /\ sn' = [sn EXCEPT !.waker = Tail(@)]
  /\ pc' = [pc EXCEPT !.pump = "woke", !.seen = Max(@, Head(sn.waker))]
  /\ gh' = Held(gh, "pump", "recv")
  /\ UNCHANGED <<ts, frames, nsnap, os>>

(* if !render_running.load(Acquire) { break }                              *)
PumpWoke ==
  /\ pc.pump = "woke"
  /\ pc' = [pc EXCEPT !.pump = IF sn.running THEN "tick" ELSE "final"]
  /\ UNCHANGED <<ts, frames, nsnap, sn, os, gh>>

(* sleep to the frame tick, then while render_rx.try_recv().is_ok() {}.    *)
PumpTick ==
  /\ pc.pump = "tick"
  /\ sn' = [sn EXCEPT !.waker = <<>>]
  /\ pc' = [pc EXCEPT !.pump = "try",
                      !.seen = IF sn.waker = <<>> THEN @ ELSE Max(@, Head(sn.waker))]
  /\ gh' = Held(gh, "pump", "sleep")
  /\ UNCHANGED <<ts, frames, nsnap, os>>

(* A pump that keeps the state guard after its snapshot.                   *)
PumpSnapshotKeepLock ==
  /\ pc.pump = "try"
  /\ sn.state_lock = "free"
  /\ Publish
  /\ pc' = [pc EXCEPT !.pump = "loop"]
  /\ sn' = [sn EXCEPT !.state_lock = "pump"]
  /\ UNCHANGED os

(* render_state.try_lock() succeeds: snapshot, drop(state), emit.          *)
PumpSnapshot ==
  /\ pc.pump = "try"
  /\ sn.state_lock = "free"
  /\ Publish
  /\ pc' = [pc EXCEPT !.pump = "loop"]
  /\ UNCHANGED <<sn, os>>

(* A pump that gives up on a failed try_lock without signalling itself.    *)
PumpRetryNoSignal ==
  /\ pc.pump = "try"
  /\ sn.state_lock # "free"
  /\ pc' = [pc EXCEPT !.pump = "loop"]
  /\ UNCHANGED <<ts, frames, nsnap, sn, os, gh>>

(* try_lock fails: notify_render(&render_retry_waker); continue.           *)
PumpRetry ==
  /\ pc.pump = "try"
  /\ sn.state_lock # "free"
  /\ sn' = [sn EXCEPT !.waker = TrySend(@, 0)]
  /\ pc' = [pc EXCEPT !.pump = "loop"]
  /\ UNCHANGED <<ts, frames, nsnap, os, gh>>

(* Final drain: render_state.lock(), snapshot, drop, emit.                 *)
PumpFinalDrain ==
  /\ pc.pump = "final"
  /\ sn.state_lock = "free"
  /\ Publish
  /\ pc' = [pc EXCEPT !.pump = "end"]
  /\ UNCHANGED <<sn, os>>

(* render_exit_code.lock().take(), emit session-ended.                     *)
PumpSessionEnded ==
  /\ pc.pump = "end"
  /\ sn' = [sn EXCEPT !.exit_code = "none"]
  /\ gh' = [gh EXCEPT !.ended = @ + 1, !.ended_code = sn.exit_code]
  /\ pc' = [pc EXCEPT !.pump = "done"]
  /\ UNCHANGED <<ts, frames, nsnap, os>>

PumpNext ==
  \/ PumpLoop \/ PumpRecv \/ PumpWoke \/ PumpTick
  \/ PumpSnapshot \/ PumpRetry \/ PumpFinalDrain \/ PumpSessionEnded

(* resize_terminal -> Session::resize: state.lock(), state.resize.         *)
ResizeState ==
  \E d \in FrameDims :
    /\ pc.ipc = "idle"
    /\ pc.resizes < MaxIpc
    /\ sn.master
    /\ sn.state_lock = "free"
    /\ ts' = Resize(ts, d[1], d[2])
    /\ sn' = [sn EXCEPT !.state_lock = "ipc"]
    /\ pc' = [pc EXCEPT !.ipc = "resize_pty", !.req = d, !.resizes = @ + 1]
    /\ gh' = [gh EXCEPT !.st_gen = @ + 1,
                        !.unpublished = TRUE,
                        !.resized = @ \cup {[resize_epoch |-> ts'.resize_epoch,
                                             rows |-> d[1], cols |-> d[2]]}]
    /\ UNCHANGED <<frames, nsnap, os>>

(* Session::resize: master.resize(PtySize), drop(state), notify_render.    *)
ResizePty ==
  /\ pc.ipc = "resize_pty"
  /\ os' = [os EXCEPT !.size = pc.req, !.gen = @ + 1]
  /\ gh' = Held(gh, "ipc", "pty_resize")
  /\ sn' = NotifyRender([sn EXCEPT !.state_lock = "free"])
  /\ pc' = [pc EXCEPT !.ipc = "resize_ack"]
  /\ UNCHANGED <<ts, frames, nsnap>>

(* resize_terminal: lock the state again, emit resize-ack.                 *)
ResizeAck ==
  /\ pc.ipc = "resize_ack"
  /\ sn.state_lock = "free"
  /\ pc' = [pc EXCEPT !.ipc = "idle", !.req = <<>>]
  /\ UNCHANGED <<ts, frames, nsnap, sn, os, gh>>

(* Session::kill: running.store(false), notify_render.                     *)
KillStart ==
  /\ pc.ipc = "idle"
  /\ sn' = NotifyRender([sn EXCEPT !.running = FALSE])
  /\ pc' = [pc EXCEPT !.ipc = "kill_child"]
  /\ UNCHANGED <<ts, frames, nsnap, os, gh>>

(* child.lock(), child.kill() (SIGHUP), begin polling try_wait.            *)
KillHangup ==
  /\ pc.ipc = "kill_child"
  /\ sn.child_lock = "free"
  /\ sn' = [sn EXCEPT !.child_lock = "kill"]
  /\ pc' = [pc EXCEPT !.ipc = "kill_poll"]
  /\ UNCHANGED <<ts, frames, nsnap, os, gh>>

(* A kill() that keeps the child guard after it has reaped the child.      *)
KillReapKeepGuard ==
  /\ pc.ipc = "kill_poll"
  /\ os' = [os EXCEPT !.child = "dead"]
  /\ sn' = [sn EXCEPT !.master = FALSE]
  /\ pc' = [pc EXCEPT !.ipc = "join_parser"]
  /\ UNCHANGED <<ts, frames, nsnap, gh>>

(* A kill() that drops the master but leaves the child running.           *)
KillReapChildAlive ==
  /\ pc.ipc = "kill_poll"
  /\ sn' = [sn EXCEPT !.child_lock = "free", !.master = FALSE]
  /\ pc' = [pc EXCEPT !.ipc = "join_parser"]
  /\ UNCHANGED <<ts, frames, nsnap, os, gh>>

(* The child has exited within the deadline or is sent SIGKILL; the child  *)
(* lock is released and the master dropped.                                *)
KillReap ==
  /\ pc.ipc = "kill_poll"
  /\ os' = [os EXCEPT !.child = "dead"]
  /\ sn' = [sn EXCEPT !.child_lock = "free", !.master = FALSE]
  /\ pc' = [pc EXCEPT !.ipc = "join_parser"]
  /\ UNCHANGED <<ts, frames, nsnap, gh>>

(* parser_handle.take() and join.                                          *)
KillJoinParser ==
  /\ pc.ipc = "join_parser"
  /\ pc.parser = "done"
  /\ sn' = [sn EXCEPT !.parser_handle = FALSE]
  /\ pc' = [pc EXCEPT !.ipc = "join_render"]
  /\ UNCHANGED <<ts, frames, nsnap, os, gh>>

(* render_handle.take() and join; render_waker = None; remove temp dir.    *)
KillJoinRender ==
  /\ pc.ipc = "join_render"
  /\ pc.pump = "done"
  /\ sn' = [sn EXCEPT !.render_handle = FALSE, !.render_waker = FALSE, !.temp_dir = FALSE]
  /\ pc' = [pc EXCEPT !.ipc = "killed"]
  /\ UNCHANGED <<ts, frames, nsnap, os, gh>>

KillNext == KillHangup \/ KillReap \/ KillJoinParser \/ KillJoinRender

(* A session with its child, its two threads and destroy_session.          *)
SessionNext ==
  \/ ChildWrite \/ ChildExit
  \/ ParserNext
  \/ PumpNext
  \/ KillStart \/ KillNext

(* Every thread that can take a step eventually takes one and a kill()     *)
(* that has begun runs on.  The child and the user are under no duty.      *)
SpecSession ==
  /\ SessionInit
  /\ [][SessionNext]_vars
  /\ WF_vars(ParserNext)
  /\ WF_vars(PumpNext)
  /\ WF_vars(KillNext)

(* A session with its child, its two threads and resize_terminal.          *)
ResizeNext ==
  \/ ChildWrite \/ ChildExit
  \/ ParserNext
  \/ PumpNext
  \/ ResizeState \/ ResizePty \/ ResizeAck

SpecResize == SessionInit /\ [][ResizeNext]_vars

(* C5: when the pump snapshots the state after consuming a signal the      *)
(* parser sent after its k-th chunk, the state holds at least k chunks.    *)
C5_SignalAfterMutation == gh.snap_seen <= gh.snap_parsed

(* The pump consumed the signal of the last chunk and then snapshotted.    *)
C5_Witness == gh.snap_seen = MaxChunks /\ pc.pump = "loop"

(* C6: session-ended is emitted at most once, no frame follows it, and no  *)
(* mutation by the parser thread is left outside the frames before it.     *)
C6_FinalDrainComplete ==
  /\ gh.ended <= 1
  /\ ~gh.late_frame
  /\ gh.ended >= 1 => ~gh.unpublished

(* C7: session-ended carries the exit code the parser thread captured.     *)
C7_ExitCodeBeforeEnded == gh.ended >= 1 => gh.ended_code = "some"

(* C8: a kill() that has begun ends; after it running is false, no thread  *)
(* handle or waker remains, both threads are gone and the temp dir is      *)
(* removed.                                                                *)
C8_KillTerminates ==
  /\ (pc.ipc = "kill_child") ~> (pc.ipc = "killed")
  /\ [](pc.ipc = "killed" =>
          /\ ~sn.running
          /\ ~sn.parser_handle /\ ~sn.render_handle /\ ~sn.render_waker
          /\ ~sn.temp_dir /\ ~sn.master
          /\ pc.parser = "done" /\ pc.pump = "done")

(* kill() returned on a session whose parser had parsed a cursor-position  *)
(* request and answered it.                                                *)
C8_Witness == pc.ipc = "killed" /\ gh.parsed = MaxChunks /\ "pty_write" \in gh.held_ops

(* C9: the state is resized before the PTY, no chunk written for a newer   *)
(* PTY size is parsed by an older state, and a frame tagged with the epoch *)
(* a resize set reports the rows and columns of that resize.               *)
C9_ResizeBeforePty ==
  /\ os.gen <= gh.st_gen
  /\ ~gh.early_parse
  /\ \A i \in 1..Len(frames) : \A a \in gh.resized :
       a.resize_epoch = frames[i].resize_epoch =>
         /\ frames[i].visible_rows = a.rows
         /\ frames[i].visible_cols = a.cols

(* C10 as amended: the only operations a thread performs holding the       *)
(* TerminalState lock that can suspend it are the PTY write of responses   *)
(* and the PTY resize; never a PTY read, a channel recv or a sleep.        *)
C10_NoWaitUnderLock == gh.held_ops \subseteq {"pty_write", "pty_resize"}

(* Both were performed under the lock.                                     *)
C10_Witness == gh.held_ops = {"pty_write", "pty_resize"}

(* C10 as stated: no suspending operation at all under the lock.           *)
C10_NoSuspensionUnderLock == gh.held_ops = {}

(* ------------------------- grid contents ------------------------------ *)
(* Printing, erasing, cell and line shifting and the alt screen on a       *)
(* terminal that is resized.                                               *)
GridInputs ==
  {[kind |-> "print", arg |-> "a"],
   [kind |-> "execute", arg |-> "LF"],
   [kind |-> "execute", arg |-> "CR"]}
    \cup {[kind |-> "csi", arg |-> Csi(a, "", <<1>>)] : a \in {"@", "P", "X", "S", "T"}}
    \cup {[kind |-> "csi", arg |-> Csi("K", "", <<2>>)]}
    \cup {[kind |-> "csi", arg |-> Csi(a, "?", <<1047>>)] : a \in {"h", "l"}}

FeedGrid == \E cb \in GridInputs : Feed(cb)

GridDims == (1..MaxRows) \X (1..MaxCols)

GridInit ==
  /\ ts = TerminalStateNew(MaxRows, MaxCols)
  /\ frames = <<>>
  /\ nsnap = 0
  /\ SessionIdle

(* TerminalState::resize to any of the sizes.                              *)
ResizeGrid ==
  \E d \in GridDims :
    /\ ~ts.panicked
    /\ WithinBounds(Resize(ts, d[1], d[2]))
    /\ ts' = Resize(ts, d[1], d[2])
    /\ UNCHANGED <<frames, nsnap, sn, pc, os, gh>>

GridNext == FeedGrid \/ ResizeGrid

SpecGrid == GridInit /\ [][GridNext]_vars

C13_ScrollbackWithinLimit ==
  /\ ts.grid.visible_rows >= 1
  /\ ts.grid.visible_rows <= Len(ts.grid.rows)
  /\ Len(ts.grid.rows) <= ts.grid.visible_rows + ts.grid.scrollback_limit

(* -------------------------- wide characters --------------------------- *)
(* Narrow and wide prints, overwrites after cursor motion, erases and cell *)
(* shifts on one line, with autowrap and insert mode switched on and off.  *)
WideInputs ==
  {[kind |-> "print", arg |-> c] : c \in PrintChars}
    \cup {[kind |-> "execute", arg |-> "CR"]}
    \cup {[kind |-> "csi", arg |-> Csi(a, "", <<1>>)] : a \in {"C", "X", "@", "P"}}
    \cup {[kind |-> "csi", arg |-> Csi(a, "", <<4>>)] : a \in {"h", "l"}}
    \cup {[kind |-> "csi", arg |-> Csi(a, "?", <<7>>)] : a \in {"h", "l"}}

FeedWide == \E cb \in WideInputs : Feed(cb)

WideInit ==
  /\ ts = TerminalStateNew(1, MaxCols)
  /\ frames = <<>>
  /\ nsnap = 0
  /\ SessionIdle

SpecWide == WideInit /\ [][FeedWide]_vars

(* C14: in every visible row of the active grid a cell flagged WIDE_CHAR   *)
(* at column k has k + 1 < cols and the cell at column k + 1 is flagged    *)
(* WIDE_SPACER.                                                            *)
C14_WideCharHasSpacer ==
  LET g == ActiveGrid(ts)
  IN \A i \in (VisibleOffset(g) + 1)..Len(g.rows) : \A k \in 1..Len(g.rows[i].cells) :
       "WIDE_CHAR" \in g.rows[i].cells[k].flags
         => /\ k + 1 <= g.cols
            /\ "WIDE_SPACER" \in g.rows[i].cells[k + 1].flags

(* C15: on every grid the program reaches, collect_dirty_lines returns    *)
(* one line per dirty visible row and none for a clean one, in increasing  *)
(* screen-relative index, each with the spans of its row; it leaves every  *)
(* visible row clean and changes nothing else, and a second call right     *)
(* after it returns nothing.                                               *)
C15_CollectDirtyLines ==
  LET g == ActiveGrid(ts)
      off == VisibleOffset(g)
      r == CollectDirtyLines(g)
      dirty == {i \in 0..(g.visible_rows - 1) : g.rows[off + i + 1].dirty}
  IN /\ {r.lines[k].index : k \in 1..Len(r.lines)} = dirty
     /\ Len(r.lines) = Cardinality(dirty)
     /\ \A k \in 1..Len(r.lines) :
          /\ k > 1 => r.lines[k - 1].index < r.lines[k].index
          /\ r.lines[k].spans = ToStyledSpans(g.rows[off + r.lines[k].index + 1])
     /\ Len(r.grid.rows) = Len(g.rows)
     /\ \A j \in 1..Len(g.rows) :
          /\ r.grid.rows[j].cells = g.rows[j].cells
          /\ r.grid.rows[j].dirty = (j <= off /\ g.rows[j].dirty)
     /\ CollectDirtyLines(r.grid).lines = <<>>

(* After a snapshot drained the grid, only the second row was written: the *)
(* next collect returns one line, whose index is 1.                        *)
C15_Witness ==
  LET g == ts.grid
  IN /\ nsnap > 0
     /\ g.visible_rows = 2
     /\ ~g.rows[VisibleOffset(g) + 1].dirty
     /\ g.rows[VisibleOffset(g) + 2].dirty

(* ------------------------- shell integration -------------------------- *)
MaxEvents == 4

ShellInputs ==
  {[kind |-> "osc", arg |-> m] : m \in {"133A", "133B", "133B_empty", "133D"}}
    \cup {[kind |-> "execute", arg |-> "LF"]}

(* The observer keeps the last marker fed and every event pushed so far.   *)
ShellInit ==
  /\ ts = TerminalStateNew(MaxRows, 1)
  /\ frames = <<>>
  /\ nsnap = 0
  /\ sn = SessionNew
  /\ pc = ThreadsNew
  /\ os = PtyNew(MaxRows, 1)
  /\ gh = [marker |-> "", log |-> <<>>]

FeedShell ==
  \E cb \in ShellInputs :
    LET after == Perform(ts, cb)
        pushed == SubSeq(after.shell.pending_events,
                         Len(ts.shell.pending_events) + 1, Len(after.shell.pending_events))
    IN /\ Len(gh.log) + Len(pushed) <= MaxEvents
       /\ after.scrollback_seq <= MaxScrollSeq
       /\ Len(after.scrolled_off_buffer) <= MaxQueue
       /\ ts' = after
       /\ gh' = [marker |-> cb.arg, log |-> gh.log \o pushed]
       /\ UNCHANGED <<frames, nsnap, sn, pc, os>>

(* take_render_snapshot drains the pending events into a frame.            *)
DrainShell ==
  LET r == TakeRenderSnapshot(ts)
  IN /\ r.snap # <<>>
     /\ r.ts.frame_seq <= MaxFrames
     /\ ts' = r.ts
     /\ gh' = [gh EXCEPT !.marker = ""]
     /\ UNCHANGED <<frames, nsnap, sn, pc, os>>

ShellNext == FeedShell \/ DrainShell

SpecShell == ShellInit /\ [][ShellNext]_vars

MaxLines == 4

MapPut(m, k, v) == [x \in (DOMAIN m) \cup {k} |-> IF x = k THEN v ELSE m[x]]

MapRemove(m, k) == [x \in (DOMAIN m) \ {k} |-> m[x]]

TmuxStateNew == [windows |-> <<>>, pane_sessions |-> <<>>, active_window |-> <<>>]

(* The windows whose pane list names the pane.                             *)
PaneHolders(st, pane_id) ==
  {w \in DOMAIN st.windows :
     \E k \in 1..Len(st.windows[w].panes) : st.windows[w].panes[k].id = pane_id}

RegisterPane(st, pane_id, session_id) ==
  LET put == [st EXCEPT !.pane_sessions = MapPut(@, pane_id, session_id)]
      holders == PaneHolders(st, pane_id)
  IN IF holders = {} THEN put
     ELSE LET w == CHOOSE x \in holders : TRUE
              first == CHOOSE k \in 1..Len(st.windows[w].panes) :
                         /\ st.windows[w].panes[k].id = pane_id
                         /\ \A j \in 1..(k - 1) : st.windows[w].panes[j].id # pane_id
          IN [put EXCEPT !.windows[w].panes[first].session_id = session_id]

WindowForPane(st, pane_id) ==
  IF PaneHolders(st, pane_id) = {} THEN <<>>
  ELSE <<CHOOSE x \in PaneHolders(st, pane_id) : TRUE>>

SetWindow(st, id) ==
  IF id \in DOMAIN st.windows THEN st
  ELSE [st EXCEPT !.windows = MapPut(@, id, [panes |-> <<>>])]

RemoveWindow(st, id) ==
  IF id \in DOMAIN st.windows
  THEN LET gone == {st.windows[id].panes[k].id : k \in 1..Len(st.windows[id].panes)}
       IN [st EXCEPT !.windows = MapRemove(@, id),
                     !.pane_sessions = [p \in (DOMAIN @) \ gone |-> @[p]]]
  ELSE st

(* update_layout with the pane ids of the layout's leaves.                 *)
UpdateLayout(st, window_id, leaves) ==
  LET with == SetWindow(st, window_id)
      old == with.windows[window_id].panes
      Known(p) == {k \in 1..Len(old) : old[k].id = p}
      SessionOf(p) ==
        IF Known(p) # {} THEN old[CHOOSE k \in Known(p) : \A j \in Known(p) : j <= k].session_id
        ELSE IF p \in DOMAIN with.pane_sessions THEN with.pane_sessions[p]
        ELSE 0
  IN [with EXCEPT !.active_window = <<window_id>>,
                  !.windows[window_id].panes =
                     [k \in 1..Len(leaves) |-> [id |-> leaves[k], session_id |-> SessionOf(leaves[k])]]]

(* A line of control-mode output: its tag and its space-separated fields.  *)
(* A line without a leading % is a body line of a response block: window   *)
(* is what precedes the first space (<<>> when it is no window id) and     *)
(* more the fields after it.                                               *)
TmuxLines ==
  {[tag |-> t, fields |-> <<9, n, 1>>] : t \in {"%begin", "%end"}, n \in {1, 2}}
    \cup {[tag |-> "%error", fields |-> <<9, 1, 1>>]}
    \cup {[tag |-> "body", window |-> <<1>>, more |-> m] : m \in {<<"zsh", "L1">>, <<"zsh", "L12">>, <<"L1">>}}
    \cup {[tag |-> "%output", pane_id |-> p] : p \in {1, 2}}
    \cup {[tag |-> "%layout-change", window_id |-> 1, layout |-> "L12"]}
    \cup {[tag |-> "%window-close", window_id |-> 1]}
    \cup {[tag |-> "%exit", reason |-> r] : r \in {"detached", "server exited"}}

(* parse_begin_end / parse_error: the number is the second field.          *)
NumberField(fields) == IF Len(fields) >= 2 THEN fields[2] ELSE 0

ParseNotification(line) ==
  CASE line.tag = "%begin" -> [type |-> "Begin", number |-> NumberField(line.fields)]
    [] line.tag = "%end" -> [type |-> "End", number |-> NumberField(line.fields)]
    [] line.tag = "%error" -> [type |-> "Error", number |-> NumberField(line.fields)]
    [] line.tag = "%output" -> [type |-> "Output", pane_id |-> line.pane_id]
    [] line.tag = "%layout-change" ->
         [type |-> "LayoutChange", window_id |-> line.window_id, layout |-> line.layout]
    [] line.tag = "%window-close" -> [type |-> "WindowClose", window_id |-> line.window_id]
    [] line.tag = "%exit" -> [type |-> "Exit", reason |-> line.reason]
    [] OTHER -> [type |-> "Unknown", raw |-> line]

(* parse_window_listing_line: `@<id> <name> <layout>`; a line needs a      *)
(* space after the window part and another one before the layout.         *)
ParseWindowListingLine(line) ==
  IF line.tag = "body" /\ Len(line.more) >= 2 /\ line.window # <<>>
  THEN <<[window_id |-> line.window[1], layout |-> line.more[Len(line.more)]]>>
  ELSE <<>>

(* parse_layout and collect_leaf_panes on the layouts the model uses: the  *)
(* pane ids of the leaves, or "none" for a string that does not parse.     *)
ParseLayoutLeaves(layout) ==
  CASE layout = "L1" -> <<1>>
    [] layout = "L12" -> <<1, 2>>
    [] OTHER -> "none"

(* reason.contains("detach")                                               *)
ContainsDetach(reason) == reason \in {"detach", "detached", "detached (from session 0)"}

TmuxControllerNew ==
  [running |-> TRUE, notify |-> <<>>, tmux_state |-> TmuxStateNew, next_uuid |-> 1,
   shutdown |-> "idle"]

TmuxThreadsNew ==
  [reader |-> "lines", response_block |-> <<>>, initial_bootstrapped |-> FALSE,
   proc |-> "loop", pane_states |-> <<>>]

TmuxObserverNew ==
  [lifecycle |-> <<>>, registered |-> <<>>, added |-> <<>>, framed |-> {},
   started_sent |-> 0]

TmuxInit ==
  /\ ts = TerminalStateNew(1, 1)
  /\ frames = <<>>
  /\ nsnap = 0
  /\ sn = TmuxControllerNew
  /\ pc = TmuxThreadsNew
  /\ os = [nread |-> 0, last |-> <<>>]
  /\ gh = TmuxObserverNew

(* process_initial_windows_response: the controller it leaves, with the    *)
(* actions it sent, and whether any line parsed.                           *)
RECURSIVE ProcessInitialWindowsResponse(_, _)
ProcessInitialWindowsResponse(lines, s) ==
  IF lines = <<>> THEN [sn |-> s, parsed_any |-> FALSE]
  ELSE LET parsed == ParseWindowListingLine(Head(lines))
           sent == IF parsed = <<>> THEN s
                   ELSE [s EXCEPT !.tmux_state = SetWindow(@, parsed[1].window_id),
                                  !.notify = Append(@, [type |-> "LayoutChange",
                                                        window_id |-> parsed[1].window_id,
                                                        layout |-> parsed[1].layout])]
           rest == ProcessInitialWindowsResponse(Tail(lines), sent)
       IN [sn |-> rest.sn, parsed_any |-> rest.parsed_any \/ parsed # <<>>]

Bootstrap(lines, s) ==
  LET done == ProcessInitialWindowsResponse(lines, s)
  IN IF done.parsed_any
     THEN [sn |-> [done.sn EXCEPT !.notify = Append(@, [type |-> "EmitStarted"])],
           parsed_any |-> TRUE]
     ELSE done

(* The reader has a line: reader.lines() yielded Ok(line) and running was  *)
(* still set; the line parses to a notification of the given type.         *)
ReaderGot(type, line) ==
  /\ pc.reader = "lines"
  /\ sn.running
  /\ os.nread < MaxLines
  /\ ParseNotification(line).type = type
  /\ os' = [nread |-> os.nread + 1, last |-> line]
  /\ UNCHANGED <<ts, frames, nsnap>>

ReaderBegin ==
  \E line \in TmuxLines :
    LET n == ParseNotification(line)
    IN /\ ReaderGot("Begin", line)
       /\ pc' = [pc EXCEPT !.response_block = <<[number |-> n.number, lines |-> <<>>]>>]
       /\ UNCHANGED <<sn, gh>>

(* An %end that hands over the buffer whatever its number.                 *)
ReaderEndAnyNumber ==
  \E line \in TmuxLines :
    LET n == ParseNotification(line)
        block == pc.response_block
        boot == Bootstrap(block[1].lines, sn)
    IN /\ ReaderGot("End", line)
       /\ IF block # <<>> /\ ~pc.initial_bootstrapped
          THEN /\ sn' = boot.sn
               /\ pc' = [pc EXCEPT !.response_block = <<>>,
                                   !.initial_bootstrapped = boot.parsed_any]
               /\ gh' = [gh EXCEPT !.started_sent = @ + (IF boot.parsed_any THEN 1 ELSE 0)]
          ELSE /\ pc' = [pc EXCEPT !.response_block = <<>>]
               /\ UNCHANGED <<sn, gh>>

ReaderEnd ==
  \E line \in TmuxLines :
    LET n == ParseNotification(line)
        block == pc.response_block
        boot == Bootstrap(block[1].lines, sn)
    IN /\ ReaderGot("End", line)
       /\ IF block # <<>> /\ block[1].number = n.number /\ ~pc.initial_bootstrapped
          THEN /\ sn' = boot.sn
               /\ pc' = [pc EXCEPT !.response_block = <<>>,
                                   !.initial_bootstrapped = boot.parsed_any]
               /\ gh' = [gh EXCEPT !.started_sent = @ + (IF boot.parsed_any THEN 1 ELSE 0)]
          ELSE /\ pc' = [pc EXCEPT !.response_block = <<>>]
               /\ UNCHANGED <<sn, gh>>

ReaderError ==
  \E line \in TmuxLines :
    /\ ReaderGot("Error", line)
    /\ pc' = [pc EXCEPT !.response_block = <<>>]
    /\ UNCHANGED <<sn, gh>>

ReaderOutput ==
  \E line \in TmuxLines :
    LET n == ParseNotification(line)
    IN /\ ReaderGot("Output", line)
       /\ sn' = [sn EXCEPT !.notify = Append(@, [type |-> "PaneOutput", pane_id |-> n.pane_id])]
       /\ UNCHANGED <<pc, gh>>

ReaderLayoutChange ==
  \E line \in TmuxLines :
    LET n == ParseNotification(line)
    IN /\ ReaderGot("LayoutChange", line)
       /\ sn' = [sn EXCEPT !.notify = Append(@, [type |-> "LayoutChange",
                                                 window_id |-> n.window_id,
                                                 layout |-> n.layout])]
       /\ UNCHANGED <<pc, gh>>

(* remove_window, then the WindowClosed event.                             *)
ReaderWindowClose ==
  \E line \in TmuxLines :
    LET n == ParseNotification(line)
    IN /\ ReaderGot("WindowClose", line)
       /\ sn' = [sn EXCEPT !.tmux_state = RemoveWindow(@, n.window_id)]
       /\ UNCHANGED <<pc, gh>>

(* A line that is no notification joins the open response block.           *)
ReaderUnknown ==
  \E line \in TmuxLines :
    LET n == ParseNotification(line)
    IN /\ ReaderGot("Unknown", line)
       /\ pc' = [pc EXCEPT !.response_block =
                    IF @ = <<>> THEN @ ELSE <<[@[1] EXCEPT !.lines = Append(@, n.raw)]>>]
       /\ UNCHANGED <<sn, gh>>

(* %exit: Detached or Ended, running = false, break.                       *)
ReaderExit ==
  \E line \in TmuxLines :
    LET n == ParseNotification(line)
    IN /\ ReaderGot("Exit", line)
       /\ gh' = [gh EXCEPT !.lifecycle =
                    Append(@, IF ContainsDetach(n.reason) THEN "Detached" ELSE "Ended")]
       /\ sn' = [sn EXCEPT !.running = FALSE]
       /\ pc' = [pc EXCEPT !.reader = "after"]

(* The line iterator ends (EOF or a read error), or a line arrives after   *)
(* running was cleared: the loop is left.                                  *)
ReaderBreak ==
  /\ pc.reader = "lines"
  /\ pc' = [pc EXCEPT !.reader = "after"]
  /\ UNCHANGED <<ts, frames, nsnap, sn, os, gh>>

(* After the loop: running = false and the Ended event.                    *)
ReaderAfterLoop ==
  /\ pc.reader = "after"
  /\ sn' = [sn EXCEPT !.running = FALSE]
  /\ gh' = [gh EXCEPT !.lifecycle = Append(@, "Ended")]
  /\ pc' = [pc EXCEPT !.reader = "done"]
  /\ UNCHANGED <<ts, frames, nsnap, os>>

TmuxReaderNext ==
  \/ ReaderBegin \/ ReaderError \/ ReaderEnd \/ ReaderOutput \/ ReaderLayoutChange
  \/ ReaderWindowClose \/ ReaderUnknown \/ ReaderExit \/ ReaderBreak \/ ReaderAfterLoop

(* The controller, its threads' locals and the frontend as one value, for  *)
(* the steps of the processor that thread all three.                       *)
TmuxWorld == [sn |-> sn, pc |-> pc, gh |-> gh]

(* create_pane_processor: a fresh session id, a new TerminalState (whose   *)
(* rows are all dirty), register_pane, the PaneAdded event, the waker      *)
(* channel and the pane's render pump, which starts at the top of its      *)
(* loop.                                                                   *)
CreatePaneProcessor(w, pane_id, window_id) ==
  LET session_id == w.sn.next_uuid
  IN [sn |-> [w.sn EXCEPT !.next_uuid = @ + 1,
                          !.tmux_state = RegisterPane(@, pane_id, session_id)],
      pc |-> [w.pc EXCEPT !.pane_states =
                 MapPut(@, pane_id, [session_id |-> session_id, render_waker |-> 0,
                                     dirty |-> TRUE, pump |-> "top"])],
      gh |-> [w.gh EXCEPT
                 !.registered = Append(@, [pane_id |-> pane_id, session_id |-> session_id]),
                 !.added = Append(@, [pane_id |-> pane_id, session_id |-> session_id,
                                     window_id |-> window_id])]]

(* An entry() that builds a new processor state whether or not one exists. *)
PaneEntryAlwaysInsert(w, pane_id, window_id) == CreatePaneProcessor(w, pane_id, window_id)

(* pane_states.entry(pane_id).or_insert_with(|| create_pane_processor(..)) *)
PaneEntry(w, pane_id, window_id) ==
  IF pane_id \in DOMAIN w.pc.pane_states THEN w
  ELSE CreatePaneProcessor(w, pane_id, window_id)

RECURSIVE EnsureLeaves(_, _, _)
EnsureLeaves(w, leaves, window_id) ==
  IF leaves = <<>> THEN w
  ELSE EnsureLeaves(PaneEntry(w, Head(leaves), window_id), Tail(leaves), window_id)

(* The processor takes the next action off the notify channel.             *)
ProcRecv(type) ==
  /\ pc.proc = "loop"
  /\ sn.running
  /\ sn.notify # <<>>
  /\ Head(sn.notify).type = type
  /\ UNCHANGED <<ts, frames, nsnap, os>>

(* PaneOutput: the pane's state (created if missing) parses the bytes,     *)
(* which dirties its terminal, and its render pump is woken.               *)
ProcPaneOutput ==
  LET a == Head(sn.notify)
      found == WindowForPane(sn.tmux_state, a.pane_id)
      target_window == IF found # <<>> THEN found[1]
                       ELSE IF sn.tmux_state.active_window # <<>>
                       THEN sn.tmux_state.active_window[1] ELSE 0
      w == PaneEntry([TmuxWorld EXCEPT !.sn.notify = Tail(@)], a.pane_id, target_window)
  IN /\ ProcRecv("PaneOutput")
     /\ sn' = w.sn
     /\ pc' = [w.pc EXCEPT !.pane_states[a.pane_id].render_waker = 1,
                           !.pane_states[a.pane_id].dirty = TRUE]
     /\ gh' = w.gh

(* LayoutChange: every leaf pane gets its state, then update_layout and    *)
(* the LayoutChanged event.                                                *)
ProcLayoutChange ==
  LET a == Head(sn.notify)
      leaves == ParseLayoutLeaves(a.layout)
      taken == [TmuxWorld EXCEPT !.sn.notify = Tail(@)]
      w == IF leaves = "none" THEN taken
           ELSE LET made == EnsureLeaves(taken, leaves, a.window_id)
                IN [made EXCEPT !.sn.tmux_state = UpdateLayout(@, a.window_id, leaves)]
  IN /\ ProcRecv("LayoutChange")
     /\ sn' = w.sn
     /\ pc' = w.pc
     /\ gh' = w.gh

(* EmitStarted: the Started event.                                         *)
ProcEmitStarted ==
  /\ ProcRecv("EmitStarted")
  /\ sn' = [sn EXCEPT !.notify = Tail(@)]
  /\ UNCHANGED <<pc, gh>>

(* running is clear: the processor leaves its loop.                        *)
ProcStop ==
  /\ pc.proc = "loop"
  /\ ~sn.running
  /\ pc' = [pc EXCEPT !.proc = "join"]
  /\ UNCHANGED <<ts, frames, nsnap, sn, os, gh>>

(* After its loop the processor drops each pane's render_waker and joins   *)
(* the pane's render pump.                                                 *)
ProcJoinPanes ==
  /\ pc.proc = "join"
  /\ \A p \in DOMAIN pc.pane_states : pc.pane_states[p].pump = "done"
  /\ pc' = [pc EXCEPT !.proc = "done"]
  /\ UNCHANGED <<ts, frames, nsnap, sn, os, gh>>

(* A pane's render pump at the top of its loop: while running it goes to   *)
(* recv, otherwise to the final drain.                                     *)
PaneLoop ==
  \E p \in DOMAIN pc.pane_states :
    /\ pc.pane_states[p].pump = "top"
    /\ pc' = [pc EXCEPT !.pane_states[p].pump = IF sn.running THEN "recv" ELSE "final"]
    /\ UNCHANGED <<ts, frames, nsnap, sn, os, gh>>

(* The pump is woken: if running has been cleared it leaves the loop,      *)
(* otherwise it takes a snapshot and emits a render-frame with its session *)
(* id if anything is dirty.                                                *)
PaneRender ==
  \E p \in DOMAIN pc.pane_states :
    /\ pc.pane_states[p].pump = "recv"
    /\ pc.pane_states[p].render_waker = 1
    /\ IF sn.running
       THEN /\ pc' = [pc EXCEPT !.pane_states[p].render_waker = 0,
                                !.pane_states[p].dirty = FALSE,
                                !.pane_states[p].pump = "top"]
            /\ gh' = IF pc.pane_states[p].dirty
                     THEN [gh EXCEPT !.framed = @ \cup {pc.pane_states[p].session_id}]
                     ELSE gh
       ELSE /\ pc' = [pc EXCEPT !.pane_states[p].render_waker = 0,
                                !.pane_states[p].pump = "final"]
            /\ gh' = gh
    /\ UNCHANGED <<ts, frames, nsnap, sn, os>>

(* The final drain: a last render-frame if anything is dirty, then the     *)
(* session-ended event.                                                    *)
PaneFinalDrain ==
  \E p \in DOMAIN pc.pane_states :
    /\ pc.pane_states[p].pump = "final"
    /\ pc' = [pc EXCEPT !.pane_states[p].dirty = FALSE, !.pane_states[p].pump = "done"]
    /\ gh' = IF pc.pane_states[p].dirty
             THEN [gh EXCEPT !.framed = @ \cup {pc.pane_states[p].session_id}]
             ELSE gh
    /\ UNCHANGED <<ts, frames, nsnap, sn, os>>

PanePumpNext == PaneLoop \/ PaneRender \/ PaneFinalDrain

(* TmuxController::shutdown clears running, kills the child and drops the  *)
(* master and the pane handles.                                            *)
TmuxShutdown ==
  /\ sn.shutdown = "idle"
  /\ sn' = [sn EXCEPT !.running = FALSE, !.shutdown = "join"]
  /\ UNCHANGED <<ts, frames, nsnap, pc, os, gh>>

(* shutdown joins the reader thread, then the processor thread.            *)
ShutdownJoin ==
  /\ sn.shutdown = "join"
  /\ pc.reader = "done"
  /\ pc.proc = "done"
  /\ sn' = [sn EXCEPT !.shutdown = "returned"]
  /\ UNCHANGED <<ts, frames, nsnap, pc, os, gh>>

TmuxProcNext ==
  \/ ProcPaneOutput \/ ProcLayoutChange \/ ProcEmitStarted \/ ProcStop \/ ProcJoinPanes

TmuxNext ==
  \/ TmuxReaderNext \/ TmuxProcNext \/ PanePumpNext \/ TmuxShutdown \/ ShutdownJoin

SpecTmux == TmuxInit /\ [][TmuxNext]_vars

(* C17: for every tmux pane id the processor creates the pane's processor  *)
(* state at most once: one fresh session id is assigned to it and          *)
(* registered in the tmux state by one register_pane call, one PaneAdded   *)
(* event is emitted for it, and a render-frame carries a session id only   *)
(* after the PaneAdded event of that session id.                           *)
C17_PaneCreatedOnce ==
  LET added == gh.added
      Of(p) == {k \in 1..Len(added) : added[k].pane_id = p}
  IN /\ \A i, j \in 1..Len(added) :
          (added[i].pane_id = added[j].pane_id \/ added[i].session_id = added[j].session_id)
            => i = j
     /\ Len(gh.registered) = Len(added)
     /\ \A k \in 1..Len(added) :
          /\ gh.registered[k].pane_id = added[k].pane_id
          /\ gh.registered[k].session_id = added[k].session_id
     /\ {added[k].pane_id : k \in 1..Len(added)} = DOMAIN pc.pane_states
     /\ \A p \in DOMAIN pc.pane_states :
          /\ Cardinality(Of(p)) = 1
          /\ \A k \in Of(p) : added[k].session_id = pc.pane_states[p].session_id
          /\ p \in DOMAIN sn.tmux_state.pane_sessions
               => sn.tmux_state.pane_sessions[p] = pc.pane_states[p].session_id
     /\ gh.framed \subseteq {added[k].session_id : k \in 1..Len(added)}

(* Both panes exist, both have had a frame, and pane 1 has been woken by a *)
(* later output that found its state in place.                             *)
C17_Witness ==
  /\ Len(gh.added) = 2
  /\ Cardinality(gh.framed) = 2
  /\ DOMAIN pc.pane_states = {1, 2}
  /\ pc.pane_states[1].render_waker = 1
  /\ pc.pane_states[1].session_id \in gh.framed

C19_OneLifecycleEvent ==
  /\ Len(gh.lifecycle) <= 1
  /\ (pc.reader = "done" => Len(gh.lifecycle) = 1 /\ ~sn.running)
  /\ (os.last # <<>> /\ os.last.tag = "%exit" /\ pc.reader # "lines") =>
        /\ ~sn.running
        /\ gh.lifecycle = <<IF ContainsDetach(os.last.reason) THEN "Detached" ELSE "Ended">>
  /\ \A i, j \in 1..Len(gh.lifecycle) :
        i < j => ~(gh.lifecycle[i] = "Detached" /\ gh.lifecycle[j] = "Ended")

(* ------------------------ tmux octal escapes --------------------------- *)
(* decode_octal_escapes (tmux/parser.rs) on byte strings.  `os` is the     *)
(* data part of an %output line, `gh` the decoded bytes and `pc` says      *)
(* whether the call has returned.                                          *)
MaxInput == 4

U8 == 256

Backslash == 92

AsciiZero == 48

AsciiNine == 57

(* u8::is_ascii_digit                                                      *)
IsAsciiDigit(b) == AsciiZero <= b /\ b <= AsciiNine

(* The bytes the inputs are made of: \ 0 1 3 7 8 a                         *)
OctalAlphabet == {Backslash, 48, 49, 51, 55, 56, 97}

OctalInputs == UNION {[1..n -> OctalAlphabet] : n \in 0..MaxInput}

(* The loop of decode_octal_escapes from (1-based) position i on.          *)
RECURSIVE DecodeFrom(_, _)
DecodeFrom(bytes, i) ==
  IF i > Len(bytes) THEN <<>>
  ELSE IF bytes[i] = Backslash /\ i + 1 <= Len(bytes)
  THEN IF bytes[i + 1] = Backslash
       THEN <<Backslash>> \o DecodeFrom(bytes, i + 2)
       ELSE IF /\ i + 3 <= Len(bytes)
               /\ IsAsciiDigit(bytes[i + 1])
               /\ IsAsciiDigit(bytes[i + 2])
               /\ IsAsciiDigit(bytes[i + 3])
       THEN LET val == ((bytes[i + 1] - AsciiZero) * 64
                        + (bytes[i + 2] - AsciiZero) * 8
                        + (bytes[i + 3] - AsciiZero)) % U16
            IN <<val % U8>> \o DecodeFrom(bytes, i + 4)
       ELSE <<bytes[i]>> \o DecodeFrom(bytes, i + 1)
  ELSE <<bytes[i]>> \o DecodeFrom(bytes, i + 1)

DecodeOctalEscapes(input) == DecodeFrom(input, 1)

OctalInit ==
  /\ ts = TerminalStateNew(1, 1)
  /\ frames = <<>>
  /\ nsnap = 0
  /\ sn = <<>>
  /\ pc = "call"
  /\ os \in OctalInputs
  /\ gh = <<>>

Decode ==
  /\ pc = "call"
  /\ gh' = DecodeOctalEscapes(os)
  /\ pc' = "returned"
  /\ UNCHANGED <<ts, frames, nsnap, sn, os>>

SpecOctal == OctalInit /\ [][Decode]_vars

(* C20: decode_octal_escapes turns a backslash followed by three octal     *)
(* digits d1 d2 d3 into the one byte d1*64 + d2*8 + d3 (kept to a byte),   *)
(* two backslashes into one backslash, and copies every other byte as it   *)
(* is, a backslash not followed by three octal digits included; and the    *)
(* three-digit octal escape of every byte 0..255 decodes to that byte.     *)
C20_OctalDecoding ==
  LET IsOctal(b) == AsciiZero <= b /\ b <= AsciiZero + 7
      RECURSIVE Claimed(_)
      Claimed(s) ==
        IF s = <<>> THEN <<>>
        ELSE IF /\ s[1] = Backslash
                /\ Len(s) >= 4
                /\ IsOctal(s[2]) /\ IsOctal(s[3]) /\ IsOctal(s[4])
        THEN <<((s[2] - AsciiZero) * 64 + (s[3] - AsciiZero) * 8 + (s[4] - AsciiZero)) % U8>>
               \o Claimed(SubSeq(s, 5, Len(s)))
        ELSE IF s[1] = Backslash /\ Len(s) >= 2 /\ s[2] = Backslash
        THEN <<Backslash>> \o Claimed(SubSeq(s, 3, Len(s)))
        ELSE <<s[1]>> \o Claimed(Tail(s))
      Escape(b) == <<Backslash, AsciiZero + (b \div 64), AsciiZero + ((b \div 8) % 8),
                     AsciiZero + (b % 8)>>
  IN /\ pc = "returned" => gh = Claimed(os)
     /\ \A b \in 0..(U8 - 1) : DecodeOctalEscapes(Escape(b)) = <<b>>

(* --------------------------- tmux layouts ------------------------------ *)
(* parse_layout and collect_leaf_panes (tmux/parser.rs).  A layout string  *)
(* is a sequence of tokens: a run of digits is one token with its value,   *)
(* the checksum is one token, and x , { } [ ] are tokens of their own.     *)
(* An Option is <<>> or a one-element tuple.  `sn` is the layout tree the  *)
(* string was written from, `os` the string, `gh` what parse_layout        *)
(* returned.                                                               *)
MaxDepth == 2

Tok(k) == [k |-> k, v |-> 0]

Num(v) == [k |-> "num", v |-> v]

(* The leaves layouts are written with: pane ids 0 and 1, and the first    *)
(* pane id that does not fit 16 bits.                                      *)
LayoutLeaves ==
  {[type |-> "Leaf", pane_id |-> <<0>>, width |-> 80, height |-> 24, x |-> 0, y |-> 0],
   [type |-> "Leaf", pane_id |-> <<1>>, width |-> 40, height |-> 12, x |-> 40, y |-> 0],
   [type |-> "Leaf", pane_id |-> <<U16>>, width |-> 40, height |-> 12, x |-> 40, y |-> 12]}

RECURSIVE LayoutTrees(_)
LayoutTrees(depth) ==
  IF depth = 0 THEN LayoutLeaves
  ELSE LET sub == LayoutTrees(depth - 1)
       IN sub \cup {[type |-> t, width |-> 80, height |-> 24, children |-> c] :
                      t \in {"HSplit", "VSplit"},
                      c \in UNION {[1..n -> sub] : n \in {1, 2}}}

(* The layout string tmux writes for a tree (after the checksum).          *)
RECURSIVE WriteLayout(_)
WriteLayout(node) ==
  IF node.type = "Leaf"
  THEN <<Num(node.width), Tok("x"), Num(node.height), Tok(","), Num(node.x), Tok(","),
         Num(node.y), Tok(","), Num(node.pane_id[1])>>
  ELSE LET RECURSIVE Join(_)
           Join(cs) == IF Len(cs) = 1 THEN WriteLayout(cs[1])
                       ELSE WriteLayout(cs[1]) \o <<Tok(",")>> \o Join(Tail(cs))
       IN <<Num(node.width), Tok("x"), Num(node.height), Tok(","), Num(0), Tok(","), Num(0),
            Tok(IF node.type = "HSplit" THEN "{" ELSE "[")>>
            \o Join(node.children)
            \o <<Tok(IF node.type = "HSplit" THEN "}" ELSE "]")>>

(* str::parse::<u16> of the characters before position idx.                *)
ParseU16(input, idx) ==
  IF idx = 2 /\ input[1].k = "num" /\ input[1].v <= U16Max THEN <<input[1].v>> ELSE <<>>

ParseU16Until(input, delim) ==
  LET found == {i \in 1..Len(input) : input[i].k = delim}
  IN IF found = {} THEN <<>>
     ELSE LET idx == CHOOSE i \in found : \A j \in found : i <= j
              val == ParseU16(input, idx)
          IN IF val = <<>> THEN <<>>
             ELSE <<[val |-> val[1], rest |-> SubSeq(input, idx + 1, Len(input))]>>

ParseU16Terminated(input) ==
  IF input = <<>> \/ input[1].k # "num" THEN <<>>
  ELSE IF ParseU16(input, 2) = <<>> THEN <<>>
  ELSE <<[val |-> input[1].v, rest |-> Tail(input)]>>

StartsWith(input, k) == input # <<>> /\ input[1].k = k

RECURSIVE ParseLayoutNode(_)
RECURSIVE ParseChildren(_, _, _)
(* The loop of parse_children: children so far, and what is left to read.  *)
RECURSIVE ParseChildrenLoop(_, _, _)
ParseChildrenLoop(rest, children, close_char) ==
  IF StartsWith(rest, close_char) THEN <<[children |-> children, rest |-> Tail(rest)]>>
  ELSE LET skipped == IF StartsWith(rest, ",") THEN Tail(rest) ELSE rest
       IN IF skipped = <<>> THEN <<[children |-> children, rest |-> skipped]>>
          ELSE LET child == ParseLayoutNode(skipped)
               IN IF child = <<>> THEN <<>>
                  ELSE ParseChildrenLoop(child[1].rest, Append(children, child[1].node),
                                         close_char)

ParseChildren(input, width, height) ==
  LET is_hsplit == StartsWith(input, "{")
      done == ParseChildrenLoop(Tail(input), <<>>, IF is_hsplit THEN "}" ELSE "]")
  IN IF done = <<>> THEN <<>>
     ELSE <<[node |-> [type |-> IF is_hsplit THEN "HSplit" ELSE "VSplit",
                       width |-> width, height |-> height,
                       children |-> done[1].children],
             rest |-> done[1].rest]>>

ParseLayoutNode(input) ==
  LET w == ParseU16Until(input, "x")
      h == ParseU16Until(w[1].rest, ",")
      x == ParseU16Until(h[1].rest, ",")
      y == ParseU16Terminated(x[1].rest)
      rest == y[1].rest
      id == ParseU16Terminated(Tail(rest))
      Leaf(pane_id, after) ==
        <<[node |-> [type |-> "Leaf", pane_id |-> pane_id, width |-> w[1].val,
                     height |-> h[1].val, x |-> x[1].val, y |-> y[1].val],
           rest |-> after]>>
  IN IF w = <<>> THEN <<>>
     ELSE IF h = <<>> THEN <<>>
     ELSE IF x = <<>> THEN <<>>
     ELSE IF y = <<>> THEN <<>>
     ELSE IF StartsWith(rest, ",") /\ id # <<>>
     THEN IF StartsWith(id[1].rest, "{") \/ StartsWith(id[1].rest, "[")
          THEN ParseChildren(id[1].rest, w[1].val, h[1].val)
          ELSE Leaf(<<id[1].val>>, id[1].rest)
     ELSE IF StartsWith(rest, "{") \/ StartsWith(rest, "[")
     THEN ParseChildren(rest, w[1].val, h[1].val)
     ELSE Leaf(<<>>, rest)

ParseLayout(input) ==
  LET found == {i \in 1..Len(input) : input[i].k = ","}
  IN IF found = {} THEN <<>>
     ELSE LET i == CHOOSE a \in found : \A b \in found : a <= b
              parsed == ParseLayoutNode(SubSeq(input, i + 1, Len(input)))
          IN IF parsed = <<>> THEN <<>> ELSE <<parsed[1].node>>

RECURSIVE CollectLeafPanes(_)
CollectLeafPanes(node) ==
  IF node.type = "Leaf" THEN <<[pane_id |-> node.pane_id, width |-> node.width,
                                height |-> node.height, x |-> node.x, y |-> node.y]>>
  ELSE LET RECURSIVE Each(_)
           Each(cs) == IF cs = <<>> THEN <<>>
                       ELSE CollectLeafPanes(Head(cs)) \o Each(Tail(cs))
       IN Each(node.children)

LayoutInit ==
  /\ ts = TerminalStateNew(1, 1)
  /\ frames = <<>>
  /\ nsnap = 0
  /\ sn \in LayoutTrees(MaxDepth)
  /\ os = <<Tok("checksum"), Tok(",")>> \o WriteLayout(sn)
  /\ pc = "call"
  /\ gh = "none"

ParseLayoutCall ==
  /\ pc = "call"
  /\ gh' = ParseLayout(os)
  /\ pc' = "returned"
  /\ UNCHANGED <<ts, frames, nsnap, sn, os>>

SpecLayout == LayoutInit /\ [][ParseLayoutCall]_vars

(* C21: for a well-formed layout string, parse_layout succeeds, the leaves *)
(* collect_leaf_panes returns are the leaf entries of the string in the    *)
(* order they are written, each with the pane id, width, height, x and y   *)
(* written there, and the tree has an HSplit for every {} group and a      *)
(* VSplit for every [] group, nested as the groups are.                    *)
C21_LayoutLeaves ==
  LET RECURSIVE Written(_)
      Written(node) ==
        IF node.type = "Leaf"
        THEN <<[pane_id |-> node.pane_id, width |-> node.width, height |-> node.height,
                x |-> node.x, y |-> node.y]>>
        ELSE IF Len(node.children) = 1 THEN Written(node.children[1])
        ELSE Written(node.children[1])
               \o Written([node EXCEPT !.children = Tail(node.children)])
      RECURSIVE Kinds(_)
      Kinds(node) ==
        IF node.type = "Leaf" THEN <<"Leaf">>
        ELSE <<node.type, [k \in 1..Len(node.children) |-> Kinds(node.children[k])]>>
  IN pc = "returned" =>
       /\ gh # <<>>
       /\ CollectLeafPanes(gh[1]) = Written(sn)
       /\ Kinds(gh[1]) = Kinds(sn)

(* --------------------------- IPC commands ------------------------------ *)
(* The session commands of ipc/commands/session.rs and the staging         *)
(* commands of ipc/commands/transfer.rs on the AppState.  In this part     *)
(* `sn` is the AppState: the session map (a session is its terminal's      *)
(* size and whether a full redraw is pending), the staged per-session      *)
(* transfer state, the tmux pane handles and the ids handed out so far;    *)
(* `os` is what has been written to each session's PTY; `gh` is the last   *)
(* command, its session id and its result.  Session ids (Uuid::new_v4)     *)
(* are fresh numbers.                                                     *)
MaxSessions == 2

(* The ids a command can name: those handed out so far, and one that is    *)
(* never handed out.                                                       *)
SessionIds == (1..(sn.next_id - 1)) \cup {MaxSessions + 1}

AppStateNew ==
  [sessions |-> <<>>, session_transfer_state |-> <<>>, pane_handles |-> <<>>, next_id |-> 1]

IpcInit ==
  /\ ts = TerminalStateNew(1, 1)
  /\ frames = <<>>
  /\ nsnap = 0
  /\ sn = AppStateNew
  /\ pc = "idle"
  /\ os = {}
  /\ gh = [cmd |-> "none", session_id |-> 0, result |-> "ok"]

IpcReturn(cmd, session_id, result) ==
  /\ gh' = [cmd |-> cmd, session_id |-> session_id, result |-> result]
  /\ UNCHANGED <<ts, frames, nsnap, pc>>

CreateSession ==
  /\ sn.next_id <= MaxSessions
  /\ sn' = [sn EXCEPT !.sessions = MapPut(@, sn.next_id, [rows |-> 1, redraw |-> FALSE]),
                      !.next_id = @ + 1]
  /\ os' = os
  /\ IpcReturn("create_session", sn.next_id, "ok")

(* create_pane_processor puts the pane's handle under its session id.      *)
PaneHandleAdded ==
  /\ sn.next_id <= MaxSessions
  /\ sn' = [sn EXCEPT !.pane_handles = MapPut(@, sn.next_id, [redraw |-> FALSE]),
                      !.next_id = @ + 1]
  /\ os' = os
  /\ IpcReturn("pane_added", sn.next_id, "ok")

StageSessionTransferState ==
  \E session_id \in SessionIds :
    /\ sn' = [sn EXCEPT !.session_transfer_state = MapPut(@, session_id, "staged")]
    /\ os' = os
    /\ IpcReturn("stage_session_transfer_state", session_id, "ok")

TakeSessionTransferState ==
  \E session_id \in SessionIds :
    /\ sn' = [sn EXCEPT !.session_transfer_state = MapRemove(@, session_id)]
    /\ os' = os
    /\ IpcReturn("take_session_transfer_state", session_id, "ok")

WriteInput ==
  \E session_id \in SessionIds :
    /\ sn' = sn
    /\ IF session_id \in DOMAIN sn.sessions
       THEN os' = os \cup {session_id} /\ IpcReturn("write_input", session_id, "ok")
       ELSE os' = os /\ IpcReturn("write_input", session_id, "err")

ResizeTerminal ==
  \E session_id \in SessionIds, rows \in 1..2 :
    /\ os' = os
    /\ IF session_id \in DOMAIN sn.sessions
       THEN /\ sn' = [sn EXCEPT !.sessions[session_id].rows = rows]
            /\ IpcReturn("resize_terminal", session_id, "ok")
       ELSE /\ sn' = sn
            /\ IpcReturn("resize_terminal", session_id, "err")

(* destroy_session: the staged transfer state of the id is removed, then   *)
(* the session is removed and killed if there is one.                      *)
DestroySession ==
  \E session_id \in SessionIds :
    LET unstaged == [sn EXCEPT !.session_transfer_state = MapRemove(@, session_id)]
    IN IF session_id \in DOMAIN sn.sessions
       THEN /\ sn' = [unstaged EXCEPT !.sessions = MapRemove(@, session_id)]
            /\ os' = os \ {session_id}
            /\ IpcReturn("destroy_session", session_id, "ok")
       ELSE /\ sn' = unstaged
            /\ os' = os
            /\ IpcReturn("destroy_session", session_id, "err")

GetBlockOutput ==
  \E session_id \in SessionIds :
    /\ sn' = sn
    /\ os' = os
    /\ IpcReturn("get_block_output", session_id,
                 IF session_id \in DOMAIN sn.sessions THEN "ok" ELSE "err")

(* request_full_redraw: the PTY sessions first, then the tmux pane handles. *)
RequestFullRedraw ==
  \E session_id \in SessionIds :
    /\ os' = os
    /\ IF session_id \in DOMAIN sn.sessions
       THEN /\ sn' = [sn EXCEPT !.sessions[session_id].redraw = TRUE]
            /\ IpcReturn("request_full_redraw", session_id, "ok")
       ELSE IF session_id \in DOMAIN sn.pane_handles
       THEN /\ sn' = [sn EXCEPT !.pane_handles[session_id].redraw = TRUE]
            /\ IpcReturn("request_full_redraw", session_id, "ok")
       ELSE /\ sn' = sn
            /\ IpcReturn("request_full_redraw", session_id, "err")

IpcNext ==
  \/ CreateSession \/ PaneHandleAdded \/ StageSessionTransferState
  \/ TakeSessionTransferState \/ WriteInput \/ ResizeTerminal \/ DestroySession
  \/ GetBlockOutput \/ RequestFullRedraw

SpecIpc == IpcInit /\ [][IpcNext]_vars

(* C22: write_input, resize_terminal, destroy_session, get_block_output    *)
(* and request_full_redraw, called with a session id that names no session *)
(* (and no tmux pane), return an error and leave the session map, the      *)
(* terminals and the staged transfer state as they were.                   *)
C22_UnknownSessionNoEffect ==
  [][(/\ gh'.cmd \in {"write_input", "resize_terminal", "destroy_session",
                      "get_block_output", "request_full_redraw"}
      /\ gh'.session_id \notin DOMAIN sn.sessions
      /\ gh'.session_id \notin DOMAIN sn.pane_handles)
       => gh'.result = "err" /\ sn' = sn /\ os' = os]_vars

(* ------------------------ the alternate screen ------------------------- *)
(* Printing, cursor motion, erasing and scrolling on a terminal that       *)
(* enters and leaves the alternate screen through DEC modes 47, 1047 and   *)
(* 1049, with snapshots that drain it.  `gh` remembers the last kind of    *)
(* input (a leave with ?1049 apart from the others) and, from the enter    *)
(* that switched screens, the main screen and the cursor as they were and  *)
(* whether it was ?1049, which saves the cursor; plain is cleared by a     *)
(* ?1049 enter repeated on the alternate screen (it saves the cursor       *)
(* again) and touched is set by an input given on it.  The terminal is one *)
(* column wide and visits the alternate screen once, before its main      *)
(* screen has scrolled: back on the main screen it is given leaves and     *)
(* snapshots only.                                                         *)
AltInputs ==
  {[kind |-> "print", arg |-> "a"],
   [kind |-> "execute", arg |-> "LF"]}
    \cup {[kind |-> "csi", arg |-> Csi(a, "", <<1>>)] : a \in {"A", "X", "S", "T", "M"}}
    \cup {[kind |-> "csi", arg |-> Csi("J", "", <<2>>)]}

(* What is given on the main screen before it is left: text, and a cursor  *)
(* move away from home.                                                    *)
MainInputs ==
  {[kind |-> "print", arg |-> "a"], [kind |-> "csi", arg |-> Csi("B", "", <<1>>)]}

AltModes == {47, 1047, 1049}

VisibleCells(g) ==
  [i \in 1..g.visible_rows |-> g.rows[VisibleOffset(g) + i].cells]

AltInit ==
  /\ ts = TerminalStateNew(MaxRows, 1)
  /\ frames = <<>>
  /\ nsnap = 0
  /\ sn = SessionNew
  /\ pc = ThreadsNew
  /\ os = PtyNew(MaxRows, 1)
  /\ gh = [last |-> "none", entry |-> <<>>, plain |-> TRUE, touched |-> FALSE]

AltFeed ==
  \E cb \in IF ts.using_alt THEN AltInputs ELSE MainInputs :
    LET fed == Perform(ts, cb)
    IN /\ ts.using_alt \/ (gh.entry = <<>> /\ fed.scrollback_seq = 0)
       /\ WithinBounds(fed)
       /\ ts' = fed
       /\ gh' = [gh EXCEPT !.last = "op", !.touched = @ \/ ts.using_alt]
       /\ UNCHANGED <<frames, nsnap, sn, pc, os>>

(* CSI ? mode h                                                            *)
AltEnter ==
  \E mode \in AltModes :
    LET entered == Perform(ts, [kind |-> "csi", arg |-> Csi("h", "?", <<mode>>)])
    IN /\ ts.using_alt \/ gh.entry = <<>>
       /\ WithinBounds(entered)
       /\ ts' = entered
       /\ gh' = IF ts.using_alt
                THEN [gh EXCEPT !.last = "enter", !.plain = @ /\ mode # 1049]
                ELSE [last |-> "enter", plain |-> TRUE, touched |-> FALSE,
                      entry |-> <<[cells |-> VisibleCells(ts.grid),
                                   row |-> ts.cursor.row, col |-> ts.cursor.col,
                                   saved |-> mode = 1049]>>]
       /\ UNCHANGED <<frames, nsnap, sn, pc, os>>

(* CSI ? mode l                                                            *)
AltLeave ==
  \E mode \in AltModes :
    LET left == Perform(ts, [kind |-> "csi", arg |-> Csi("l", "?", <<mode>>)])
    IN /\ WithinBounds(left)
       /\ ts' = left
       /\ gh' = [gh EXCEPT !.last = IF mode = 1049 THEN "leave1049" ELSE "leave"]
       /\ UNCHANGED <<frames, nsnap, sn, pc, os>>

AltDrain ==
  LET r == TakeRenderSnapshot(ts)
  IN /\ r.snap # <<>>
     /\ r.ts.frame_seq <= MaxFrames
     /\ ts' = r.ts
     /\ gh' = [gh EXCEPT !.last = "snapshot"]
     /\ UNCHANGED <<frames, nsnap, sn, pc, os>>

AltNext == AltFeed \/ AltEnter \/ AltLeave \/ AltDrain

SpecAlt == AltInit /\ [][AltNext]_vars

C25_AltNoScrollback ==
  [][/\ ts'.alt_grid # <<>> => Len(ts'.alt_grid[1].rows) = ts'.alt_grid[1].visible_rows
     /\ (ts.using_alt /\ gh'.last = "op") =>
          /\ ts'.scrollback_seq = ts.scrollback_seq
          /\ ts'.scrolled_off_buffer = ts.scrolled_off_buffer
  ]_vars

(* --------------------------- scrolling regions -------------------------- *)
(* Grid::scroll_up, with the capture its callers (linefeed, scroll_up_n,   *)
(* delete_lines) perform on what it returns, and Grid::scroll_down, called *)
(* with every region of a one-column main screen that was printed on and   *)
(* drained.  `gh` remembers the last call, its region and what scroll_up   *)
(* returned.                                                               *)
ScrollRows == MaxRows + 1

ScrollInputs ==
  {[kind |-> "print", arg |-> c] : c \in {"a", "b"}}
    \cup {[kind |-> "csi", arg |-> Csi(a, "", <<1>>)] : a \in {"A", "B"}}

ScrollRegions == {r \in (0..(ScrollRows - 1)) \X (0..(ScrollRows - 1)) : r[1] <= r[2]}

ScrollInit ==
  /\ ts = TerminalStateNew(ScrollRows, 1)
  /\ frames = <<>>
  /\ nsnap = 0
  /\ sn = SessionNew
  /\ pc = ThreadsNew
  /\ os = PtyNew(ScrollRows, 1)
  /\ gh = [op |-> "none", top |-> 0, bottom |-> 0, line |-> <<>>]

ScrollFeed ==
  \E cb \in ScrollInputs :
    LET fed == Perform(ts, cb)
    IN /\ WithinBounds(fed)
       /\ ts' = fed
       /\ gh' = [op |-> "feed", top |-> 0, bottom |-> 0, line |-> <<>>]
       /\ UNCHANGED <<frames, nsnap, sn, pc, os>>

ScrollDrain ==
  LET r == TakeRenderSnapshot(ts)
  IN /\ r.snap # <<>>
     /\ r.ts.frame_seq <= MaxFrames
     /\ ts' = r.ts
     /\ gh' = [op |-> "snapshot", top |-> 0, bottom |-> 0, line |-> <<>>]
     /\ UNCHANGED <<frames, nsnap, sn, pc, os>>

ScrollUpCall ==
  \E r \in ScrollRegions :
    LET scrolled == ScrollUpCapture(ts, r[1], r[2])
    IN /\ WithinBounds(scrolled)
       /\ ts' = scrolled
       /\ gh' = [op |-> "scroll_up", top |-> r[1], bottom |-> r[2],
                 line |-> ScrollUp(ts.grid, r[1], r[2]).line]
       /\ UNCHANGED <<frames, nsnap, sn, pc, os>>

ScrollDownCall ==
  \E r \in ScrollRegions :
    /\ ts' = [ts EXCEPT !.grid = ScrollDown(@, r[1], r[2])]
    /\ gh' = [op |-> "scroll_down", top |-> r[1], bottom |-> r[2], line |-> <<>>]
    /\ UNCHANGED <<frames, nsnap, sn, pc, os>>

ScrollNext == ScrollFeed \/ ScrollDrain \/ ScrollUpCall \/ ScrollDownCall

SpecScroll == ScrollInit /\ [][ScrollNext]_vars

(* C24: scroll_up(top, bottom) moves the rows top+1..bottom of the screen  *)
(* up by one and leaves a blank row at bottom; the visible rows outside    *)
(* the region keep their cells and flags.  With top = 0 the removed row    *)
(* becomes the newest scrollback row, its rendered line is returned and    *)
(* captured, and scrollback_seq advances; with top > 0 nothing is          *)
(* returned and the scrollback rows, the captured lines and scrollback_seq *)
(* stay as they were.  scroll_down moves the rows top..bottom-1 down by    *)
(* one, blanks row top, and leaves the scrollback, the captured lines and  *)
(* scrollback_seq alone.                                                   *)
C24_ScrollRegion ==
  [][LET g == ts.grid
         h == ts'.grid
         top == gh'.top
         bottom == gh'.bottom
         Vis(x, i) == x.rows[VisibleOffset(x) + i + 1]
         Back(x) == SubSeq(x.rows, 1, VisibleOffset(x))
         Outside == \A i \in 0..(ScrollRows - 1) :
                      (i < top \/ i > bottom) => Vis(h, i) = Vis(g, i)
         blank == [i \in 1..g.cols |-> DefaultCell]
     IN /\ gh'.op = "scroll_up" =>
             /\ \A i \in top..(bottom - 1) : Vis(h, i).cells = Vis(g, i + 1).cells
             /\ Vis(h, bottom).cells = blank
             /\ Outside
             /\ top = 0 =>
                  /\ gh'.line = <<[index |-> 0, spans |-> ToStyledSpans(Vis(g, 0))]>>
                  /\ Back(h) # <<>>
                  /\ Back(h)[Len(Back(h))].cells = Vis(g, 0).cells
                  /\ Len(Back(h)) = Min(Len(Back(g)) + 1, g.scrollback_limit)
                  /\ ts'.scrolled_off_buffer = ts.scrolled_off_buffer \o gh'.line
                  /\ ts'.scrollback_seq = ts.scrollback_seq + 1
             /\ top > 0 =>
                  /\ gh'.line = <<>>
                  /\ Back(h) = Back(g)
                  /\ ts'.scrolled_off_buffer = ts.scrolled_off_buffer
                  /\ ts'.scrollback_seq = ts.scrollback_seq
        /\ gh'.op = "scroll_down" =>
             /\ \A i \in (top + 1)..bottom : Vis(h, i).cells = Vis(g, i - 1).cells
             /\ Vis(h, top).cells = blank
             /\ Outside
             /\ Back(h) = Back(g)
             /\ ts'.scrolled_off_buffer = ts.scrolled_off_buffer
             /\ ts'.scrollback_seq = ts.scrollback_seq
  ]_vars

(* scroll_up of an inner region moved a printed row up past an untouched   *)
(* printed row, with a scrollback row in place.                            *)
C24_Witness ==
  /\ gh.op = "scroll_up"
  /\ gh.top = 1
  /\ gh.bottom = ScrollRows - 1
  /\ Len(ts.grid.rows) > ScrollRows
  /\ ts.grid.rows[Len(ts.grid.rows) - ScrollRows + 1].cells[1].c = "a"
  /\ ts.grid.rows[Len(ts.grid.rows) - ScrollRows + 2].cells[1].c = "b"
  /\ ts.scrollback_seq = 1

(* ------------------------------ full reset ------------------------------ *)
(* ESC c on a one-column terminal that prints, scrolls, visits the         *)
(* alternate screen, is resized and is drained by snapshots.  `gh`         *)
(* remembers the last kind of step, whether a reset has happened with no   *)
(* snapshot since, the frame_seq of the last snapshot returned before that *)
(* reset (<<>> = none), and the snapshot the last step returned.           *)
ResetInputs ==
  {[kind |-> "print", arg |-> "a"],
   [kind |-> "execute", arg |-> "LF"]}
    \cup {[kind |-> "csi", arg |-> Csi(a, "?", <<1047>>)] : a \in {"h", "l"}}

ResetInit ==
  /\ ts = TerminalStateNew(MaxRows, 1)
  /\ frames = <<>>
  /\ nsnap = 0
  /\ sn = SessionNew
  /\ pc = ThreadsNew
  /\ os = PtyNew(MaxRows, 1)
  /\ gh = [op |-> "none", reset |-> FALSE, seq |-> <<>>, before |-> <<>>, snap |-> <<>>]

ResetFeed ==
  \E cb \in ResetInputs :
    LET fed == Perform(ts, cb)
    IN /\ WithinBounds(fed)
       /\ ts' = fed
       /\ gh' = [gh EXCEPT !.op = "feed", !.snap = <<>>]
       /\ UNCHANGED <<frames, nsnap, sn, pc, os>>

(* ESC c                                                                   *)
ResetRis ==
  /\ ts' = Perform(ts, [kind |-> "esc", arg |-> "c"])
  /\ gh' = [gh EXCEPT !.op = "ris", !.reset = TRUE, !.snap = <<>>,
                      !.before = IF gh.reset THEN @ ELSE gh.seq]
  /\ UNCHANGED <<frames, nsnap, sn, pc, os>>

ResetResize ==
  \E d \in FrameDims :
    LET resized == Resize(ts, d[1], d[2])
    IN /\ WithinBounds(resized)
       /\ ts' = resized
       /\ gh' = [gh EXCEPT !.op = "resize", !.snap = <<>>]
       /\ UNCHANGED <<frames, nsnap, sn, pc, os>>

(* take_render_snapshot, returning a snapshot or None.                     *)
ResetSnapshot ==
  LET r == TakeRenderSnapshot(ts)
  IN /\ r.ts.frame_seq <= MaxFrames + 1
     /\ ts' = r.ts
     /\ gh' = IF r.snap = <<>>
              THEN [gh EXCEPT !.op = "none_returned", !.snap = <<>>]
              ELSE [op |-> "snapshot", reset |-> FALSE,
                    seq |-> <<r.snap[1].frame_seq>>, before |-> gh.before,
                    snap |-> r.snap]
     /\ UNCHANGED <<frames, nsnap, sn, pc, os>>

ResetNext == ResetFeed \/ ResetRis \/ ResetResize \/ ResetSnapshot

SpecReset == ResetInit /\ [][ResetNext]_vars

(* C26: ESC c leaves a terminal of the same rows and cols on the main      *)
(* screen with the same frame_seq and every visible row dirty; the first   *)
(* call of take_render_snapshot after it returns a snapshot that holds a   *)
(* line for every visible row, and its frame_seq is one more than that of  *)
(* the last snapshot returned before the reset.                            *)
C26_FullReset ==
  [][LET AllDirty(g) == \A i \in 1..g.visible_rows : g.rows[VisibleOffset(g) + i].dirty
     IN /\ gh'.op = "ris" =>
             /\ ts'.rows = ts.rows
             /\ ts'.cols = ts.cols
             /\ ts'.grid.visible_rows = ts.rows
             /\ ts'.grid.cols = ts.cols
             /\ ts'.frame_seq = ts.frame_seq
             /\ ~ts'.using_alt
             /\ AllDirty(ts'.grid)
        /\ (gh.reset /\ gh'.op \in {"snapshot", "none_returned"}) =>
             /\ gh'.op = "snapshot"
             /\ {gh'.snap[1].lines[i].index : i \in 1..Len(gh'.snap[1].lines)}
                  = 0..(gh'.snap[1].visible_rows - 1)
             /\ gh'.snap[1].visible_rows = ts.rows
             /\ gh.before # <<>> => gh'.snap[1].frame_seq = gh.before[1] + 1
  ]_vars

(* The first snapshot after a reset of a drained, scrolled terminal that   *)
(* was on the alternate screen, with input and a resize in between.        *)
C26_Witness ==
  /\ gh.op = "snapshot"
  /\ gh.before = <<MaxFrames>>
  /\ gh.snap[1].frame_seq = MaxFrames + 1
  /\ Len(gh.snap[1].lines) = MaxRows
  /\ gh.snap[1].events = <<[type |-> "AltScreenExited"]>>
  /\ gh.snap[1].lines[1].spans = <<"a">>
  /\ ts.resize_epoch = 1

(* C27: CSI 3 J leaves the visible cells and the cursor as they were,      *)
(* queues exactly one ScrollbackCleared event, leaves no scrolled-off line *)
(* pending and leaves the main grid with no row above its visible rows.    *)
C27_ScrollbackCleared ==
  [][ts' = Perform(ts, [kind |-> "csi", arg |-> Csi("J", "", <<3>>)]) =>
       /\ VisibleCells(ts'.grid) = VisibleCells(ts.grid)
       /\ ts'.cursor = ts.cursor
       /\ ts'.pending_terminal_events =
            Append(ts.pending_terminal_events, [type |-> "ScrollbackCleared"])
       /\ ts'.scrolled_off_buffer = <<>>
       /\ Len(ts'.grid.rows) = ts'.grid.visible_rows
  ]_vars

(* ------------------------ a tmux pane's terminal ------------------------ *)
(* The processor thread's handling of one pane: LayoutChange with a leaf   *)
(* for the pane (the first creates its processor state at the leaf's       *)
(* size), PaneOutput for the pane once it exists, and the pane's render    *)
(* pump draining it.  `ts` is the pane's entry in pane_states (<<>> = no   *)
(* entry, <<t>> = its TerminalState) and `gh` remembers the last step and  *)
(* the leaf's size.                                                        *)
PaneInputs ==
  {[kind |-> "print", arg |-> "a"],
   [kind |-> "execute", arg |-> "LF"],
   [kind |-> "esc", arg |-> "H"],
   [kind |-> "csi", arg |-> Csi("r", "", <<1, 1>>)]}

PaneInit ==
  /\ ts = <<>>
  /\ frames = <<>>
  /\ nsnap = 0
  /\ sn = SessionNew
  /\ pc = ThreadsNew
  /\ os = PtyNew(MaxRows, MaxCols)
  /\ gh = [op |-> "none", width |-> 0, height |-> 0]

(* LayoutChange, for one leaf: entry().or_insert_with, then the resize.    *)
PaneLayoutChange ==
  \E width \in 0..MaxCols, height \in 0..MaxRows :
    LET entry == IF ts = <<>> THEN TerminalStateNew(height, width) ELSE ts[1]
        after == IF width > 0 /\ height > 0 THEN Resize(entry, height, width) ELSE entry
    IN /\ ts = <<>> => (width > 0 /\ height > 0)
       /\ after.resize_epoch <= MaxResizes + 1
       /\ after.scrollback_seq <= MaxScrollSeq
       /\ Len(after.scrolled_off_buffer) <= MaxQueue
       /\ ts' = <<after>>
       /\ gh' = [op |-> "layout", width |-> width, height |-> height]
       /\ UNCHANGED <<frames, nsnap, sn, pc, os>>

(* PaneOutput: the bytes are parsed and the responses dropped.             *)
PaneOutput ==
  \E cb \in PaneInputs :
    LET fed == TakePendingResponses(Perform(ts[1], cb))
    IN /\ ts # <<>>
       /\ fed.scrollback_seq <= MaxScrollSeq
       /\ Len(fed.scrolled_off_buffer) <= MaxQueue
       /\ ts' = <<fed>>
       /\ gh' = [op |-> "output", width |-> 0, height |-> 0]
       /\ UNCHANGED <<frames, nsnap, sn, pc, os>>

(* The pane's render pump takes a snapshot.                                *)
PaneSnapshot ==
  LET r == TakeRenderSnapshot(ts[1])
  IN /\ ts # <<>>
     /\ r.snap # <<>>
     /\ r.ts.frame_seq <= MaxFrames
     /\ ts' = <<r.ts>>
     /\ gh' = [op |-> "snapshot", width |-> 0, height |-> 0]
     /\ UNCHANGED <<frames, nsnap, sn, pc, os>>

PaneNext == PaneLayoutChange \/ PaneOutput \/ PaneSnapshot

SpecPane == PaneInit /\ [][PaneNext]_vars

(* C28: a LayoutChange whose leaf has the width and height the pane's      *)
(* TerminalState already has does not resize it: resize_epoch, the scroll  *)
(* region, the tab stops, scrollback_seq and the rows' dirty flags are     *)
(* what they were.                                                         *)
C28_LayoutRepeatNoResize ==
  [][(/\ gh'.op = "layout"
      /\ ts # <<>>
      /\ gh'.width = ts[1].cols
      /\ gh'.height = ts[1].rows) =>
       /\ ts'[1].resize_epoch = ts[1].resize_epoch
       /\ ts'[1].scroll_top = ts[1].scroll_top
       /\ ts'[1].scroll_bottom = ts[1].scroll_bottom
       /\ ts'[1].tab_stops = ts[1].tab_stops
       /\ ts'[1].scrollback_seq = ts[1].scrollback_seq
       /\ [i \in 1..Len(ts'[1].grid.rows) |-> ts'[1].grid.rows[i].dirty]
            = [i \in 1..Len(ts[1].grid.rows) |-> ts[1].grid.rows[i].dirty]
  ]_vars

(* C29: from a cursor on the screen, CUU n leaves the row at               *)
(* max(row - n, limit) and CUD n at min(row + n, limit), the limit being   *)
(* scroll_top / scroll_bottom when the cursor starts inside the scroll     *)
(* region and 0 / rows - 1 otherwise; CUD does not lower the row and CUF   *)
(* does not lower the column, for counts up to 65535.                      *)
C29_CursorMotion ==
  [][\A n \in {2, U16Max} :
       LET row == ts.cursor.row
           up == IF InRegion(ts) THEN ts.scroll_top ELSE 0
           down == IF InRegion(ts) THEN ts.scroll_bottom ELSE ts.rows - 1
           Moved(a) == ts' = Perform(ts, [kind |-> "csi", arg |-> Csi(a, "", <<n>>)])
       IN (~ts.panicked /\ row < ts.rows /\ ts.cursor.col < ts.cols) =>
            /\ Moved("A") => ts'.cursor.row = Max(row - n, up)
            /\ Moved("B") => /\ ts'.cursor.row = Min(row + n, down)
                             /\ ts'.cursor.row >= row
            /\ Moved("C") => ts'.cursor.col >= ts.cursor.col
  ]_vars

(* ------------------------------ origin mode ----------------------------- *)
(* CUP and VPA with a missing, a small and the largest row parameter,      *)
(* DECOM set and reset, and DECSTBM with the regions of a one-column       *)
(* terminal of three rows or more.  `gh` remembers the last input.         *)
OriginRows == MaxRows + 1

OriginInputs ==
  {Csi(a, "", <<p>>) : a \in {"H", "d"}, p \in {0, 1, 2, U16Max}}
    \cup {Csi("r", "", <<t, OriginRows>>) : t \in {1, 2, OriginRows}}
    \cup {Csi(a, "?", <<6>>) : a \in {"h", "l"}}
    \cup {Csi("B", "", <<1>>)}

OriginInit ==
  /\ ts = TerminalStateNew(OriginRows, 1)
  /\ frames = <<>>
  /\ nsnap = 0
  /\ sn = SessionNew
  /\ pc = ThreadsNew
  /\ os = PtyNew(OriginRows, 1)
  /\ gh = <<>>

OriginFeed ==
  \E csi \in OriginInputs :
    /\ ts' = Perform(ts, [kind |-> "csi", arg |-> csi])
    /\ gh' = <<csi>>
    /\ UNCHANGED <<frames, nsnap, sn, pc, os>>

OriginPrint ==
  LET fed == Perform(ts, [kind |-> "print", arg |-> "a"])
  IN /\ WithinBounds(fed)
     /\ ts' = fed
     /\ gh' = <<>>
     /\ UNCHANGED <<frames, nsnap, sn, pc, os>>

OriginNext == OriginFeed \/ OriginPrint

SpecOrigin == OriginInit /\ [][OriginNext]_vars

(* C30: CUP and VPA with row parameter p (a missing one counts as 1) put   *)
(* the cursor on row min(scroll_top + p - 1, scroll_bottom) in origin mode *)
(* and on row min(p - 1, rows - 1) otherwise; setting DECOM puts the       *)
(* cursor at (scroll_top, 0) and resetting it at (0, 0).                   *)
C30_OriginMode ==
  [][gh' # <<>> =>
       LET csi == gh'[1]
           p == IF csi.params[1] = 0 THEN 1 ELSE csi.params[1]
       IN /\ (csi.action \in {"H", "d"} /\ ts.modes.origin) =>
               ts'.cursor.row = Min(ts.scroll_top + p - 1, ts.scroll_bottom)
          /\ (csi.action \in {"H", "d"} /\ ~ts.modes.origin) =>
               ts'.cursor.row = Min(p - 1, ts.rows - 1)
          /\ (csi.action = "h" /\ csi.im = "?") =>
               ts'.cursor.row = ts.scroll_top /\ ts'.cursor.col = 0 /\ ts'.modes.origin
          /\ (csi.action = "l" /\ csi.im = "?") =>
               ts'.cursor.row = 0 /\ ts'.cursor.col = 0 /\ ~ts'.modes.origin
  ]_vars

(* --------------------------- device reports ----------------------------- *)
(* The parser thread's Ok(n) arm on chunks of one or two parser callbacks: *)
(* status and cursor-position requests, a device-attributes request, text  *)
(* and the full reset.  `os` is what has been written to the PTY writer    *)
(* and `gh` remembers every response the parser queued, in the order of    *)
(* the queries.                                                            *)
MaxResponses == 3

RespondInputs ==
  {[kind |-> "print", arg |-> "a"],
   [kind |-> "esc", arg |-> "c"],
   [kind |-> "csi", arg |-> Csi("c", "", <<0>>)]}
    \cup {[kind |-> "csi", arg |-> Csi("n", "", <<p>>)] : p \in {5, 6}}

RespondChunks == UNION {[1..n -> RespondInputs] : n \in {1, 2}}

RespondInit ==
  /\ ts = TerminalStateNew(MaxRows, 1)
  /\ frames = <<>>
  /\ nsnap = 0
  /\ sn = SessionNew
  /\ pc = ThreadsNew
  /\ os = <<>>
  /\ gh = <<>>

(* What one parser callback leaves: the state, and the responses queued so *)
(* far with the ones this callback pushed onto pending_responses.          *)
Noted(acc, next) ==
  LET had == Len(acc.state.pending_responses)
      has == Len(next.pending_responses)
  IN [state |-> next,
      queued |-> acc.queued \o (IF has > had THEN SubSeq(next.pending_responses, had + 1, has)
                                ELSE <<>>)]

(* parser.advance over the bytes of a chunk.                               *)
RECURSIVE AdvanceChunk(_, _)
AdvanceChunk(acc, chunk) ==
  IF chunk = <<>> THEN acc
  ELSE AdvanceChunk(Noted(acc, Perform(acc.state, Head(chunk))), Tail(chunk))

(* if !responses.is_empty(): write_all of each response, flush.            *)
FlushResponses(written, responses) == written \o responses

(* After the chunk is parsed: take the pending responses and write them,   *)
(* notify the pump, drop the guard.                                        *)
FlushChunk(r) ==
  /\ Len(r.queued) <= MaxResponses
  /\ r.state.scrollback_seq <= MaxScrollSeq
  /\ Len(r.state.scrolled_off_buffer) <= MaxQueue
  /\ ts' = TakePendingResponses(r.state)
  /\ os' = FlushResponses(os, r.state.pending_responses)
  /\ gh' = r.queued
  /\ sn' = NotifyRender(sn)
  /\ UNCHANGED <<frames, nsnap, pc>>

(* reader.read returns Ok(n): lock the state, advance the parser over the  *)
(* chunk, flush the responses.                                             *)
ReadChunk ==
  \E chunk \in RespondChunks : FlushChunk(AdvanceChunk([state |-> ts, queued |-> gh], chunk))

SpecRespond == RespondInit /\ [][ReadChunk]_vars

(* C31: between chunks the responses written to the PTY are exactly the    *)
(* responses the parser has queued, once each and in the order of the      *)
(* queries, and pending_responses is empty.                                *)
C31_ResponsesFlushed ==
  /\ os = gh
  /\ ts.pending_responses = <<>>

(* C32: the scroll region is valid in every state:                         *)
(* 0 <= scroll_top <= scroll_bottom <= rows - 1.                           *)
C32_ScrollRegionValid ==
  /\ 0 <= ts.scroll_top
  /\ ts.scroll_top <= ts.scroll_bottom
  /\ ts.scroll_bottom <= ts.rows - 1

(* ---------------------- the saved cursor and resizes -------------------- *)
(* Cursor motion, every way of saving and restoring the cursor and an      *)
(* erase of the cursor's line, on a terminal that is resized.              *)
SavedInputs ==
  {[kind |-> "esc", arg |-> b] : b \in {"7", "8"}}
    \cup {[kind |-> "csi", arg |-> Csi(a, "", <<1>>)] : a \in {"B", "C", "s", "u"}}
    \cup {[kind |-> "csi", arg |-> Csi(a, "?", <<m>>)] : a \in {"h", "l"}, m \in {1048, 1049}}
    \cup {[kind |-> "csi", arg |-> Csi("K", "", <<2>>)]}

FeedSaved == \E cb \in SavedInputs : Feed(cb)

SavedNext == FeedSaved \/ ResizeGrid

SpecSaved == GridInit /\ [][SavedNext]_vars

(* C33: in every state the cursor is inside the grid, cursor.row < rows    *)
(* and cursor.col <= cols, and no parser callback has indexed a row        *)
(* outside the grid.                                                       *)
C33_CursorInsideAfterResize ==
  /\ ts.cursor.row < ts.rows
  /\ ts.cursor.col <= ts.cols
  /\ ~ts.panicked

(* ------------------------ delivery to the display ----------------------- *)
(* Line feeds that scroll, alternate-screen switches, erase-scrollback and *)
(* the full reset on a one-column terminal drained by snapshots.  `gh`     *)
(* remembers, each in its order, the terminal events and the scrolled      *)
(* lines the parser callbacks queued and the ones snapshots carried.       *)
DeliverInputs ==
  {[kind |-> "print", arg |-> "a"],
   [kind |-> "execute", arg |-> "LF"],
   [kind |-> "esc", arg |-> "c"],
   [kind |-> "csi", arg |-> Csi("J", "", <<3>>)]}
    \cup {[kind |-> "csi", arg |-> Csi(a, "?", <<47>>)] : a \in {"h", "l"}}

DeliverInit ==
  /\ ts = TerminalStateNew(MaxRows, 1)
  /\ frames = <<>>
  /\ nsnap = 0
  /\ sn = SessionNew
  /\ pc = ThreadsNew
  /\ os = PtyNew(MaxRows, 1)
  /\ gh = [events_queued |-> <<>>, events_sent |-> <<>>,
           lines_queued |-> <<>>, lines_sent |-> <<>>]

(* What a callback pushed onto a queue: everything the queue holds after a *)
(* full reset, which starts from an empty queue, and otherwise what it     *)
(* holds beyond its earlier length.                                        *)
Pushed(cb, before, after) ==
  IF cb.kind = "esc" /\ cb.arg = "c" THEN after
  ELSE IF Len(after) > Len(before) THEN SubSeq(after, Len(before) + 1, Len(after))
  ELSE <<>>

(* The observer's record after a callback took the state from ts to next.  *)
DeliverNoted(cb, next) ==
  /\ WithinBounds(next)
  /\ ts' = next
  /\ gh' = [gh EXCEPT
              !.events_queued = @ \o Pushed(cb, ts.pending_terminal_events,
                                            next.pending_terminal_events),
              !.lines_queued = @ \o Pushed(cb, ts.scrolled_off_buffer,
                                           next.scrolled_off_buffer)]
  /\ Len(gh'.events_queued) <= MaxQueue + 1
  /\ Len(gh'.lines_queued) <= MaxQueue + 1
  /\ UNCHANGED <<frames, nsnap, sn, pc, os>>

DeliverFeed == \E cb \in DeliverInputs : DeliverNoted(cb, Perform(ts, cb))

(* What a snapshot carried, added to the record.                           *)
DeliverTaken(r) ==
  /\ r.snap # <<>>
  /\ r.ts.frame_seq <= MaxFrames
  /\ ts' = r.ts
  /\ gh' = [gh EXCEPT !.events_sent = @ \o r.snap[1].events,
                      !.lines_sent = @ \o r.snap[1].scrolled_lines]
  /\ UNCHANGED <<frames, nsnap, sn, pc, os>>

DeliverSnapshot == DeliverTaken(TakeRenderSnapshot(ts))

DeliverNext == DeliverFeed \/ DeliverSnapshot

SpecDeliver == DeliverInit /\ [][DeliverNext]_vars

(* C34: the events the snapshots have carried followed by the ones still   *)
(* pending are exactly the events queued, in their order, and the same for *)
(* the scrolled lines: nothing queued is lost before the snapshot that     *)
(* carries it and nothing is carried twice.                                *)
C34_NothingLost ==
  /\ gh.events_queued = gh.events_sent \o ts.pending_terminal_events
  /\ gh.lines_queued = gh.lines_sent \o ts.scrolled_off_buffer

(* The rows the main grid holds above its viewport.  self.grid is the main *)
(* grid whichever screen is shown.                                         *)
MainScrollbackLen(t) == Len(t.grid.rows) - t.grid.visible_rows

(* C35: the main grid holds min(scrollback_seq, scrollback_limit) rows     *)
(* above the viewport after any scrolls and resizes, resizes made while    *)
(* the alternate screen is shown included.                                 *)
C35_ScrollbackSeqCounts ==
  ~ts.panicked =>
    MainScrollbackLen(ts) = Min(ts.scrollback_seq, ts.grid.scrollback_limit)

(* ------------------------- no lost wake-up ----------------------------- *)
(* Session::request_full_redraw: state.lock(), mark_all_dirty on the grid  *)
(* shown, drop(ts).                                                        *)
RedrawMark ==
  /\ pc.ipc = "idle"
  /\ pc.resizes < MaxIpc
  /\ sn.state_lock = "free"
  /\ ts' = IF ts.using_alt
           THEN [ts EXCEPT !.alt_grid = IF @ = <<>> THEN <<>> ELSE <<MarkAllDirty(@[1])>>]
           ELSE [ts EXCEPT !.grid = MarkAllDirty(@)]
  /\ pc' = [pc EXCEPT !.ipc = "redraw_notify", !.resizes = @ + 1]
  /\ gh' = [gh EXCEPT !.unpublished = TRUE]
  /\ UNCHANGED <<frames, nsnap, sn, os>>

(* A request_full_redraw that marks the rows and signals nobody.           *)
RedrawNoNotify ==
  /\ pc.ipc = "redraw_notify"
  /\ pc' = [pc EXCEPT !.ipc = "idle"]
  /\ UNCHANGED <<ts, frames, nsnap, sn, os, gh>>

(* Session::request_full_redraw: self.notify_render().                     *)
RedrawNotify ==
  /\ pc.ipc = "redraw_notify"
  /\ sn' = NotifyRender(sn)
  /\ pc' = [pc EXCEPT !.ipc = "idle"]
  /\ UNCHANGED <<ts, frames, nsnap, os, gh>>

IpcRunsOn == ResizePty \/ ResizeAck \/ RedrawNotify

WakeNext ==
  \/ ChildWrite \/ ChildExit
  \/ ParserNext
  \/ PumpNext
  \/ ResizeState \/ RedrawMark
  \/ IpcRunsOn

(* A session with its child, its two threads, resize_terminal and          *)
(* request_full_redraw.  Every thread that can take a step eventually      *)
(* takes one and a command that has begun runs on.                         *)
SpecWake ==
  /\ SessionInit
  /\ [][WakeNext]_vars
  /\ WF_vars(ParserNext)
  /\ WF_vars(PumpNext)
  /\ WF_vars(IpcRunsOn)

(* C36: a mutation of the state by the parser thread, a resize or          *)
(* request_full_redraw that no take_render_snapshot has followed is        *)
(* eventually followed by one, or the session stops running.               *)
C36_NoLostWakeup == gh.unpublished ~> (~gh.unpublished \/ ~sn.running)

(* A snapshot followed the parser's chunk, two commands and no signal of   *)
(* the parser thread's: the pump was woken by another sender's signal.     *)
C36_Witness ==
  /\ ~gh.unpublished /\ sn.running
  /\ gh.parsed = MaxChunks /\ gh.snap_parsed = MaxChunks /\ gh.snap_seen = 0
  /\ pc.resizes = MaxIpc /\ nsnap > 0

(* --------------------------- lock order -------------------------------- *)
(* write_input -> Session::write_input: self.writer.lock().                *)
WriteInputLock ==
  /\ pc.ipc = "idle"
  /\ pc.resizes < MaxIpc
  /\ sn.writer_lock = "free"
  /\ sn' = [sn EXCEPT !.writer_lock = "ipc"]
  /\ pc' = [pc EXCEPT !.ipc = "write_input", !.resizes = @ + 1]
  /\ UNCHANGED <<ts, frames, nsnap, os, gh>>

(* Session::write_input: write_all, flush, the writer guard is dropped.    *)
WriteInputWrite ==
  /\ pc.ipc = "write_input"
  /\ sn' = [sn EXCEPT !.writer_lock = "free"]
  /\ pc' = [pc EXCEPT !.ipc = "idle"]
  /\ UNCHANGED <<ts, frames, nsnap, os, gh>>

(* get_block_output: the state is locked, read and unlocked.               *)
GetBlockOutputState ==
  /\ pc.ipc = "idle"
  /\ pc.resizes < MaxIpc
  /\ sn.state_lock = "free"
  /\ pc' = [pc EXCEPT !.resizes = @ + 1]
  /\ UNCHANGED <<ts, frames, nsnap, sn, os, gh>>

LocksNext ==
  \/ ChildWrite \/ ChildExit
  \/ ParserNext
  \/ PumpNext
  \/ ResizeState \/ ResizePty \/ ResizeAck
  \/ RedrawMark \/ RedrawNotify
  \/ WriteInputLock \/ WriteInputWrite
  \/ GetBlockOutputState
  \/ KillStart \/ KillNext

(* A session with its child, its two threads and the commands.             *)
SpecLocks == SessionInit /\ [][LocksNext]_vars

Threads == {"parser", "pump", "ipc"}

(* The thread that holds a lock under the name h.                          *)
HolderThread(h) == IF h = "kill" THEN "ipc" ELSE h

(* The lock a thread is about to take with a blocking lock() ("none" when  *)
(* it is elsewhere): the parser the state in the Ok(n) arm, the writer for *)
(* its responses, the child after EOF; the pump the state for its final    *)
(* drain; a command the state for resize-ack, the child in kill().         *)
LockWanted(t) ==
  CASE t = "parser" /\ pc.parser = "lock" -> "state"
    [] t = "parser" /\ pc.parser = "respond" -> "writer"
    [] t = "parser" /\ pc.parser = "read" /\ os.out = <<>> /\ os.child = "dead" -> "child"
    [] t = "pump" /\ pc.pump = "final" -> "state"
    [] t = "ipc" /\ pc.ipc = "resize_ack" -> "state"
    [] t = "ipc" /\ pc.ipc = "kill_child" -> "child"
    [] OTHER -> "none"

LockHolder(l) ==
  CASE l = "state" -> sn.state_lock
    [] l = "writer" -> sn.writer_lock
    [] l = "child" -> sn.child_lock
    [] OTHER -> "free"

(* The thread a thread waits for ("none" when it can run): the holder of   *)
(* the lock it wants, or the thread it joins.                              *)
WaitsFor(t) ==
  IF LockWanted(t) # "none"
  THEN IF LockHolder(LockWanted(t)) = "free" THEN "none"
       ELSE HolderThread(LockHolder(LockWanted(t)))
  ELSE IF t = "ipc" /\ pc.ipc = "join_parser" /\ pc.parser # "done" THEN "parser"
  ELSE IF t = "ipc" /\ pc.ipc = "join_render" /\ pc.pump # "done" THEN "pump"
  ELSE "none"

WaitsForNext(t) == IF t = "none" THEN "none" ELSE WaitsFor(t)

(* The locks a thread holds.                                               *)
LocksHeld(t) ==
  {l \in {"state", "writer", "child"} :
     LockHolder(l) # "free" /\ HolderThread(LockHolder(l)) = t}

(* C37: no thread waits, through locks and joins, for itself, and a thread *)
(* about to lock the TerminalState holds neither the writer nor the child  *)
(* lock.                                                                   *)
C37_DeadlockFree ==
  \A t \in Threads :
    /\ t \notin {WaitsFor(t), WaitsForNext(WaitsFor(t)),
                 WaitsForNext(WaitsForNext(WaitsFor(t)))}
    /\ LockWanted(t) = "state" => LocksHeld(t) = {}

(* The parser, holding the state, waits for the writer that write_input    *)
(* holds while the pump is about to try the state lock.                    *)
C37_Witness ==
  /\ pc.parser = "respond" /\ sn.state_lock = "parser"
  /\ sn.writer_lock = "ipc" /\ pc.pump = "try"

(* ----------------------- shutdown of the controller -------------------- *)
(* The controller with every thread that can take a step eventually       *)
(* taking one, and a shutdown() that has begun running on.                 *)
SpecTmuxStop ==
  /\ TmuxInit
  /\ [][TmuxNext]_vars
  /\ WF_vars(TmuxReaderNext)
  /\ WF_vars(TmuxProcNext)
  /\ WF_vars(PanePumpNext)
  /\ WF_vars(ShutdownJoin)

(* C38: a shutdown() that has cleared running and dropped the handles      *)
(* returns: the reader, the processor and every pane's render pump exit    *)
(* and the joins return.                                                   *)
C38_ShutdownTerminates == (sn.shutdown = "join") ~> (sn.shutdown = "returned")

(* C39: once the processor has left its loop no PaneOutput action the      *)
(* reader enqueued is left unprocessed on the notify channel.              *)
C39_NoOutputDropped ==
  pc.proc # "loop" =>
    \A i \in 1..Len(sn.notify) : sn.notify[i].type # "PaneOutput"

(* C40: when the line the reader handled last is `%window-close @W` and    *)
(* every action it enqueued before has been processed, W is not among      *)
(* tmux_state.windows.                                                     *)
C40_ClosedStaysClosed ==
  (os.last # <<>> /\ os.last.tag = "%window-close" /\ sn.notify = <<>>)
    => os.last.window_id \notin DOMAIN sn.tmux_state.windows

====
